---------------------------- MODULE Spec2Model ----------------------------
(***************************************************************************)
(* Email QA system: the HTTP server (src/server.js), the rule-based        *)
(* comparator (src/services/functionComparator.js), the report generator   *)
(* (src/services/reportGenerator.js) and the parts of the email fetcher    *)
(* (src/unnamed/part_001) the comparator's inputs come from.               *)
(*                                                                         *)
(* A JavaScript string is a sequence of one-character strings, so that     *)
(* toLowerCase, trim and includes are computed character by character.     *)
(* An optional JavaScript value is a record [kind, v] with kind "value",   *)
(* "undefined" or "null".                                                  *)
(***************************************************************************)
EXTENDS Integers, Sequences, FiniteSets, TLC

\* ------------------------------------------------------------------------
\* Bounds of the model
\* ------------------------------------------------------------------------

\* Longest list of expected labels / URLs / keywords / footer texts.
MaxList == 2

\* Most CTA candidates in one email.
MaxCtas == 2

\* Concurrent /api/compare requests.
NumCompare == 1

\* Concurrent /api/upload requests.
NumUpload == 1

\* Most query parameters of one URL.
MaxParams == 3

\* Most anchors of one email's markup.
MaxAnchors == 2

\* Most lines of the body text of one email.
MaxLines == 8

\* ------------------------------------------------------------------------
\* String literals of the source, as character sequences
\* ------------------------------------------------------------------------

str_unsubscribe == <<"u", "n", "s", "u", "b", "s", "c", "r", "i", "b", "e">>

str_opt_out == <<"o", "p", "t", " ", "o", "u", "t">>

str_opt_dash_out == <<"o", "p", "t", "-", "o", "u", "t">>

str_optout == <<"o", "p", "t", "o", "u", "t">>

str_all_rights_reserved == <<"a", "l", "l", " ", "r", "i", "g", "h", "t", "s", " ", "r", "e", "s", "e", "r", "v", "e", "d">>

str_privacy_policy == <<"p", "r", "i", "v", "a", "c", "y", " ", "p", "o", "l", "i", "c", "y">>

str_terms == <<"t", "e", "r", "m", "s">>

str_https == <<"h", "t", "t", "p", "s", ":", "/", "/">>

\* ------------------------------------------------------------------------
\* Sample strings the inputs of the model are drawn from
\* ------------------------------------------------------------------------

txt_shop_now == <<"S", "h", "o", "p", " ", "N", "o", "w">>

txt_shop == <<"s", "h", "o", "p">>

txt_buy == <<"B", "u", "y">>

txt_now == <<"n", "o", "w">>

lbl_shop_now_padded == <<" ", "S", "H", "O", "P", " ", "N", "O", "W", " ">>

lbl_shop_now_bang == <<"S", "h", "o", "p", " ", "N", "o", "w", "!">>

lbl_buy == <<"b", "u", "y">>

lbl_x == <<"x">>

url_p == <<"h", "t", "t", "p", "s", ":", "/", "/", "x", ".", "t", "/", "p">>

url_p_id1 == <<"h", "t", "t", "p", "s", ":", "/", "/", "x", ".", "t", "/", "p", "?", "i", "d", "=", "1">>

url_P_slash_upper == <<"H", "T", "T", "P", "S", ":", "/", "/", "X", ".", "T", "/", "p", "/">>

url_q == <<"h", "t", "t", "p", "s", ":", "/", "/", "x", ".", "t", "/", "q">>

url_p_id2 == <<"h", "t", "t", "p", "s", ":", "/", "/", "x", ".", "t", "/", "p", "?", "i", "d", "=", "2">>

rel_p == <<"x", ".", "t", "/", "p">>

rel_p_id1 == <<"x", ".", "t", "/", "p", "?", "i", "d", "=", "1">>

rel_p_id2 == <<"x", ".", "t", "/", "p", "?", "i", "d", "=", "2">>

href_unsub == <<"h", "t", "t", "p", "s", ":", "/", "/", "x", ".", "t", "/", "u", "n", "s", "u", "b", "s", "c", "r", "i", "b", "e">>

href_Unsub == <<"h", "t", "t", "p", "s", ":", "/", "/", "x", ".", "t", "/", "U", "n", "s", "u", "b", "s", "c", "r", "i", "b", "e">>

href_optout == <<"h", "t", "t", "p", "s", ":", "/", "/", "x", ".", "t", "/", "o", "p", "t", "o", "u", "t">>

body_unsub == <<"C", "l", "i", "c", "k", " ", "t", "o", " ", "U", "n", "s", "u", "b", "s", "c", "r", "i", "b", "e">>

body_optout == <<"Y", "o", "u", " ", "m", "a", "y", " ", "o", "p", "t", " ", "o", "u", "t">>

body_hello == <<"H", "e", "l", "l", "o">>

text_stop == <<"R", "e", "p", "l", "y", " ", "S", "T", "O", "P", " ", "t", "o", " ", "l", "e", "a", "v", "e">>

text_unsub == <<"t", "o", " ", "U", "N", "S", "U", "B", "S", "C", "R", "I", "B", "E", " ", "c", "l", "i", "c", "k">>

req_stop == <<"S", "t", "o", "p">>

ft_all_upper == <<"A", "l", "l", " ", "R", "i", "g", "h", "t", "s", " ", "R", "e", "s", "e", "r", "v", "e", "d">>

ft_all_rights == <<"a", "l", "l", " ", "r", "i", "g", "h", "t", "s">>

ft_reserved == <<"r", "e", "s", "e", "r", "v", "e", "d", ".", " ", "P", "r", "i", "v", "a", "c", "y", " ", "P", "o", "l", "i", "c", "y">>

ft_term == <<"t", "e", "r", "m">>

ft_full == <<"P", "r", "i", "v", "a", "c", "y", " ", "P", "o", "l", "i", "c", "y", " ", "|", " ", "T", "e", "r", "m", "s">>

ft_s == <<"s", " ", "o", "f", " ", "u", "s", "e">>

kw_sale == <<"S", "A", "L", "E">>

kw_off == <<"5", "0", "%", " ", "o", "f", "f">>

kw_zz == <<"z", "z">>

text_sale == <<"S", "u", "m", "m", "e", "r", " ", "s", "a", "l", "e", ":", " ", "5", "0", "%", " ", "O", "F", "F">>

text_compliant == <<"S", "h", "o", "p", " ", "n", "o", "w", ".", " ", "U", "n", "s", "u", "b", "s", "c", "r", "i", "b", "e", ".", " ", "A", "l", "l", " ", "r", "i", "g", "h", "t", "s", " ", "r", "e", "s", "e", "r", "v", "e", "d", ".", " ", "P", "r", "i", "v", "a", "c", "y", " ", "P", "o", "l", "i", "c", "y", ".", " ", "T", "e", "r", "m", "s">>

par_utm_source == <<"u", "t", "m", "_", "s", "o", "u", "r", "c", "e", "=", "a">>

par_utm_source_b == <<"u", "t", "m", "_", "s", "o", "u", "r", "c", "e", "_", "b", "=", "2">>

par_utm_source_c == <<"u", "t", "m", "_", "s", "o", "u", "r", "c", "e", "_", "c", "=", "3">>

par_UTM_Medium == <<"U", "T", "M", "_", "M", "e", "d", "i", "u", "m", "=", "c">>

par_id == <<"i", "d", "=", "1">>

par_trk_x == <<"t", "r", "k", "_", "x", "=", "1">>

par_q == <<"q", "=", "x">>

par_referrer == <<"r", "e", "f", "e", "r", "r", "e", "r", "=", "z">>

rel_P_slash_upper == <<"X", ".", "T", "/", "P", "/">>

txt_shop_now_padded == <<" ", " ", "S", "h", "o", "p", " ", "N", "o", "w", " ">>

txt_blank == <<" ", " ">>

url_q_utm == <<"h", "t", "t", "p", "s", ":", "/", "/", "x", ".", "t", "/", "q", "?", "u", "t", "m", "_", "s", "o", "u", "r", "c", "e", "=", "a">>
ft_padded == <<" ", "F", "o", "o", "t", "e", "r", " ", "\n">>

\* ------------------------------------------------------------------------
\* JavaScript values and string built-ins
\* ------------------------------------------------------------------------

Val(x) == [kind |-> "value", v |-> x]

Undefined == [kind |-> "undefined", v |-> <<>>]

Null == [kind |-> "null", v |-> <<>>]

\* A thrown TypeError (reading a property of null).
TypeError == [threw |-> "TypeError"]

Threw(r) == "threw" \in DOMAIN r

UpperChars == <<"A", "B", "C", "D", "E", "F", "G", "H", "I", "J", "K", "L", "M", "N", "O", "P", "Q", "R", "S", "T", "U", "V", "W", "X", "Y", "Z">>

LowerChars == <<"a", "b", "c", "d", "e", "f", "g", "h", "i", "j", "k", "l", "m", "n", "o", "p", "q", "r", "s", "t", "u", "v", "w", "x", "y", "z">>

ToLowerChar(c) ==
    IF \E i \in 1..Len(UpperChars) : UpperChars[i] = c
    THEN LowerChars[CHOOSE i \in 1..Len(UpperChars) : UpperChars[i] = c]
    ELSE c

\* String.prototype.toLowerCase
toLowerCase(s) == [i \in 1..Len(s) |-> ToLowerChar(s[i])]

\* String.prototype.includes
includes(s, t) ==
    \E i \in 0..(Len(s) - Len(t)) :
        Len(s) >= Len(t) /\ SubSeq(s, i + 1, i + Len(t)) = t

IsSpace(c) == c \in {" ", "\n", "\t"}

RECURSIVE trimStart(_)
trimStart(s) ==
    IF Len(s) > 0 /\ IsSpace(s[1]) THEN trimStart(Tail(s)) ELSE s

RECURSIVE trimEnd(_)
trimEnd(s) ==
    IF Len(s) > 0 /\ IsSpace(s[Len(s)])
    THEN trimEnd(SubSeq(s, 1, Len(s) - 1))
    ELSE s

\* String.prototype.trim
trim(s) == trimEnd(trimStart(s))

\* s.replace(/\/$/, '')
stripTrailingSlash(s) ==
    IF Len(s) > 0 /\ s[Len(s)] = "/" THEN SubSeq(s, 1, Len(s) - 1) ELSE s

\* First index of s holding a character of set, Len(s) + 1 if there is none.
IndexOfAny(s, set) ==
    IF \E i \in 1..Len(s) : s[i] \in set
    THEN CHOOSE i \in 1..Len(s) :
            s[i] \in set /\ \A j \in 1..(i - 1) : s[j] \notin set
    ELSE Len(s) + 1

\* ------------------------------------------------------------------------
\* new URL(url): the https URLs of the model's alphabet.  A string parses
\* iff it starts with the scheme (any letter case) and has a non-empty
\* host; a string without a scheme makes the constructor throw.
\* ------------------------------------------------------------------------

UrlRest(url) == SubSeq(url, Len(str_https) + 1, Len(url))

ParsesAsURL(url) ==
    /\ Len(url) > Len(str_https)
    /\ toLowerCase(SubSeq(url, 1, Len(str_https))) = str_https
    /\ UrlRest(url)[1] \notin {"/", "?", "#"}

UrlHost(url) ==
    SubSeq(UrlRest(url), 1, IndexOfAny(UrlRest(url), {"/", "?", "#"}) - 1)

UrlAfterHost(url) ==
    SubSeq(UrlRest(url), IndexOfAny(UrlRest(url), {"/", "?", "#"}),
           Len(UrlRest(url)))

\* urlObj.origin: scheme and host, lower-cased by the parser
UrlOrigin(url) == str_https \o toLowerCase(UrlHost(url))

\* urlObj.pathname: the path up to the query, "/" when empty
UrlPathname(url) ==
    LET p == SubSeq(UrlAfterHost(url), 1,
                    IndexOfAny(UrlAfterHost(url), {"?", "#"}) - 1)
    IN  IF p = <<>> THEN <<"/">> ELSE p

\* urlObj.search: the query with its leading "?", empty when there is none
UrlSearch(url) ==
    LET a == UrlAfterHost(url)
        q == SubSeq(a, IndexOfAny(a, {"?", "#"}), Len(a))
    IN  IF q # <<>> /\ q[1] = "?"
        THEN SubSeq(q, 1, IndexOfAny(q, {"#"}) - 1)
        ELSE <<>>

\* ------------------------------------------------------------------------
\* FunctionComparator (src/services/functionComparator.js)
\* ------------------------------------------------------------------------

normalizeUrl_keepQuery(url) ==
    IF ParsesAsURL(url)
    THEN toLowerCase(UrlOrigin(url)) \o stripTrailingSlash(UrlPathname(url))
         \o UrlSearch(url)
    ELSE stripTrailingSlash(toLowerCase(url))

normalizeUrl_noLowerCase(url) ==
    IF ParsesAsURL(url)
    THEN toLowerCase(UrlOrigin(url)) \o stripTrailingSlash(UrlPathname(url))
    ELSE stripTrailingSlash(url)

normalizeUrl(url) ==
    IF ParsesAsURL(url)
    THEN toLowerCase(UrlOrigin(url)) \o stripTrailingSlash(UrlPathname(url))
    ELSE stripTrailingSlash(toLowerCase(url))

\* !x for a list argument: undefined, null, or (x.length === 0)
EmptyOrAbsent(opt) == opt.kind # "value" \/ Len(opt.v) = 0

CtaTexts(emailCTAs) == [i \in 1..Len(emailCTAs) |-> emailCTAs[i].text]

CtaCleanUrls(emailCTAs) == [i \in 1..Len(emailCTAs) |-> emailCTAs[i].cleanUrl]

\* the predicate of emailCTATexts.some(...) for one expected label
CtaTextFound_oneWay(emailCTAs, expectedCTA) ==
    LET normalizedExpected == trim(toLowerCase(expectedCTA))
    IN  \E i \in 1..Len(emailCTAs) :
            LET t == trim(toLowerCase(emailCTAs[i].text))
            IN  t = normalizedExpected \/ includes(t, normalizedExpected)

CtaTextFound(emailCTAs, expectedCTA) ==
    LET normalizedExpected == trim(toLowerCase(expectedCTA))
    IN  \E i \in 1..Len(emailCTAs) :
            LET t == trim(toLowerCase(emailCTAs[i].text))
            IN  \/ t = normalizedExpected
                \/ includes(t, normalizedExpected)
                \/ includes(normalizedExpected, t)

compareCTAText(docText, emailCTAs, expectedCTAs) ==
    IF EmptyOrAbsent(expectedCTAs)
    THEN [status |-> "PASS",
          message |-> "No specific CTAs configured for comparison",
          found |-> CtaTexts(emailCTAs)]
    ELSE LET exp == expectedCTAs.v
             matched == SelectSeq(exp, LAMBDA e : CtaTextFound(emailCTAs, e))
             unmatched == SelectSeq(exp, LAMBDA e : ~CtaTextFound(emailCTAs, e))
             issues == [i \in 1..Len(unmatched) |->
                           [msg |-> "CTA not found in email", arg |-> unmatched[i]]]
         IN  [status |-> IF Len(issues) = 0 THEN "PASS" ELSE "FAIL",
              expected |-> exp,
              found |-> CtaTexts(emailCTAs),
              matched |-> matched,
              issues |-> issues]

\* the predicate of emailCTAs.some(...) for one expected URL
CtaUrlFound(emailCTAs, expectedUrl) ==
    LET cleanExpected == normalizeUrl(expectedUrl)
    IN  \E i \in 1..Len(emailCTAs) :
            LET cleanFound == normalizeUrl(emailCTAs[i].cleanUrl)
            IN  \/ cleanFound = cleanExpected
                \/ includes(cleanFound, cleanExpected)
                \/ includes(cleanExpected, cleanFound)

compareCTAUrls(emailCTAs, expectedUrls) ==
    IF EmptyOrAbsent(expectedUrls)
    THEN [status |-> "PASS",
          message |-> "No specific URLs configured for comparison",
          found |-> CtaCleanUrls(emailCTAs)]
    ELSE LET exp == expectedUrls.v
             matched == SelectSeq(exp, LAMBDA e : CtaUrlFound(emailCTAs, e))
             unmatched == SelectSeq(exp, LAMBDA e : ~CtaUrlFound(emailCTAs, e))
             issues == [i \in 1..Len(unmatched) |->
                           [msg |-> "URL not found in email CTAs", arg |-> unmatched[i]]]
         IN  [status |-> IF Len(issues) = 0 THEN "PASS" ELSE "FAIL",
              expected |-> exp,
              found |-> CtaCleanUrls(emailCTAs),
              matched |-> matched,
              issues |-> issues]

checkUnsubscribe_textOnly(emailContent, requiredTextArg) ==
    IF requiredTextArg.kind = "null"
    THEN TypeError
    ELSE LET requiredText == IF requiredTextArg.kind = "undefined"
                             THEN str_unsubscribe ELSE requiredTextArg.v
             hasRequiredText == includes(toLowerCase(emailContent.text),
                                         toLowerCase(requiredText))
         IN  IF ~emailContent.hasUnsubscribe.hasText /\ ~hasRequiredText
             THEN [status |-> "FAIL",
                   message |-> "No unsubscribe link or text found",
                   required |-> requiredText,
                   issues |-> <<[msg |-> "Missing unsubscribe link/text - COMPLIANCE ISSUE",
                                 arg |-> <<>>]>>]
             ELSE [status |-> "PASS",
                   hasLink |-> emailContent.hasUnsubscribe.hasLink,
                   hasText |-> emailContent.hasUnsubscribe.hasText \/ hasRequiredText]

checkUnsubscribe(emailContent, requiredTextArg) ==
    IF requiredTextArg.kind = "null"
    THEN TypeError
    ELSE LET requiredText == IF requiredTextArg.kind = "undefined"
                             THEN str_unsubscribe ELSE requiredTextArg.v
             hasUnsubscribe == emailContent.hasUnsubscribe.found
             hasRequiredText == includes(toLowerCase(emailContent.text),
                                         toLowerCase(requiredText))
         IN  IF ~hasUnsubscribe /\ ~hasRequiredText
             THEN [status |-> "FAIL",
                   message |-> "No unsubscribe link or text found",
                   required |-> requiredText,
                   issues |-> <<[msg |-> "Missing unsubscribe link/text - COMPLIANCE ISSUE",
                                 arg |-> <<>>]>>]
             ELSE [status |-> "PASS",
                   hasLink |-> emailContent.hasUnsubscribe.hasLink,
                   hasText |-> emailContent.hasUnsubscribe.hasText \/ hasRequiredText]

defaultCompliance == <<str_all_rights_reserved, str_privacy_policy, str_terms>>

FooterSearchText(footerText, fullText) ==
    toLowerCase(footerText \o <<" ">> \o fullText)

checkFooter_anyMatch(footerText, fullText, requiredTextsArg) ==
    IF requiredTextsArg.kind = "null"
    THEN TypeError
    ELSE LET requiredTexts == requiredTextsArg.v
             textsToCheck == IF Len(requiredTexts) > 0
                             THEN requiredTexts ELSE defaultCompliance
             searchText == FooterSearchText(footerText, fullText)
             hit(t) == includes(searchText, toLowerCase(t))
             found == SelectSeq(textsToCheck, hit)
             notFound == SelectSeq(textsToCheck, LAMBDA t : ~hit(t))
             issues == [i \in 1..Len(notFound) |->
                           [msg |-> "Required footer text not found", arg |-> notFound[i]]]
         IN  [status |-> IF Len(found) > 0 THEN "PASS" ELSE "FAIL",
              required |-> textsToCheck,
              found |-> found,
              issues |-> IF Len(found) > 0 THEN <<>> ELSE issues]

checkFooter_strictDropsIssues(footerText, fullText, requiredTextsArg) ==
    IF requiredTextsArg.kind = "null"
    THEN TypeError
    ELSE LET requiredTexts == requiredTextsArg.v
             textsToCheck == IF Len(requiredTexts) > 0
                             THEN requiredTexts ELSE defaultCompliance
             searchText == FooterSearchText(footerText, fullText)
             hit(t) == includes(searchText, toLowerCase(t))
             found == SelectSeq(textsToCheck, hit)
             notFound == SelectSeq(textsToCheck, LAMBDA t : ~hit(t))
             issues == [i \in 1..Len(notFound) |->
                           [msg |-> "Required footer text not found", arg |-> notFound[i]]]
         IN  IF Len(found) = 0 /\ Len(requiredTexts) > 0
             THEN [status |-> "FAIL",
                   required |-> textsToCheck,
                   found |-> <<>>,
                   issues |-> <<>>]
             ELSE [status |-> IF Len(issues) = 0 THEN "PASS" ELSE "FAIL",
                   required |-> textsToCheck,
                   found |-> found,
                   issues |-> issues]

checkFooter_emptiesFound(footerText, fullText, requiredTextsArg) ==
    IF requiredTextsArg.kind = "null"
    THEN TypeError
    ELSE LET requiredTexts == requiredTextsArg.v
             textsToCheck == IF Len(requiredTexts) > 0
                             THEN requiredTexts ELSE defaultCompliance
             searchText == FooterSearchText(footerText, fullText)
             hit(t) == includes(searchText, toLowerCase(t))
             found == SelectSeq(textsToCheck, hit)
             notFound == SelectSeq(textsToCheck, LAMBDA t : ~hit(t))
             issues == [i \in 1..Len(notFound) |->
                           [msg |-> "Required footer text not found", arg |-> notFound[i]]]
         IN  IF Len(found) < Len(textsToCheck) /\ Len(requiredTexts) > 0
             THEN [status |-> "FAIL",
                   required |-> textsToCheck,
                   found |-> <<>>,
                   issues |-> issues]
             ELSE [status |-> IF Len(issues) = 0 THEN "PASS" ELSE "FAIL",
                   required |-> textsToCheck,
                   found |-> found,
                   issues |-> issues]

checkFooter(footerText, fullText, requiredTextsArg) ==
    IF requiredTextsArg.kind = "null"
    THEN TypeError
    ELSE LET requiredTexts == requiredTextsArg.v
             textsToCheck == IF Len(requiredTexts) > 0
                             THEN requiredTexts ELSE defaultCompliance
             searchText == FooterSearchText(footerText, fullText)
             hit(t) == includes(searchText, toLowerCase(t))
             found == SelectSeq(textsToCheck, hit)
             notFound == SelectSeq(textsToCheck, LAMBDA t : ~hit(t))
             issues == [i \in 1..Len(notFound) |->
                           [msg |-> "Required footer text not found", arg |-> notFound[i]]]
         IN  IF Len(found) = 0 /\ Len(requiredTexts) > 0
             THEN [status |-> "FAIL",
                   required |-> textsToCheck,
                   found |-> <<>>,
                   issues |-> issues]
             ELSE [status |-> IF Len(issues) = 0 THEN "PASS" ELSE "FAIL",
                   required |-> textsToCheck,
                   found |-> found,
                   issues |-> issues]

checkKeywords_needsAFound(emailText, requiredKeywordsArg) ==
    LET requiredKeywords == requiredKeywordsArg.v
        textLower == toLowerCase(emailText)
        hit(k) == includes(textLower, toLowerCase(k))
        found == SelectSeq(requiredKeywords, hit)
        missing == SelectSeq(requiredKeywords, LAMBDA k : ~hit(k))
    IN  [status |-> IF Len(found) > 0 /\ Len(missing) = 0 THEN "PASS" ELSE "FAIL",
         required |-> requiredKeywords,
         found |-> found,
         missing |-> missing,
         issues |-> [i \in 1..Len(missing) |->
                        [msg |-> "Required keyword not found in email",
                         arg |-> missing[i]]]]

checkKeywords_firstMissing(emailText, requiredKeywordsArg) ==
    IF EmptyOrAbsent(requiredKeywordsArg)
    THEN [status |-> "PASS",
          message |-> "No specific keywords configured for comparison"]
    ELSE LET requiredKeywords == requiredKeywordsArg.v
             textLower == toLowerCase(emailText)
             hit(k) == includes(textLower, toLowerCase(k))
             found == SelectSeq(requiredKeywords, hit)
             allMissing == SelectSeq(requiredKeywords, LAMBDA k : ~hit(k))
             missing == IF Len(allMissing) > 0 THEN <<allMissing[1]>> ELSE <<>>
         IN  [status |-> IF Len(missing) = 0 THEN "PASS" ELSE "FAIL",
              required |-> requiredKeywords,
              found |-> found,
              missing |-> missing,
              issues |-> [i \in 1..Len(missing) |->
                             [msg |-> "Required keyword not found in email",
                              arg |-> missing[i]]]]

checkKeywords(emailText, requiredKeywordsArg) ==
    IF EmptyOrAbsent(requiredKeywordsArg)
    THEN [status |-> "PASS",
          message |-> "No specific keywords configured for comparison"]
    ELSE LET requiredKeywords == requiredKeywordsArg.v
             textLower == toLowerCase(emailText)
             hit(k) == includes(textLower, toLowerCase(k))
             found == SelectSeq(requiredKeywords, hit)
             missing == SelectSeq(requiredKeywords, LAMBDA k : ~hit(k))
         IN  [status |-> IF Len(missing) = 0 THEN "PASS" ELSE "FAIL",
              required |-> requiredKeywords,
              found |-> found,
              missing |-> missing,
              issues |-> [i \in 1..Len(missing) |->
                             [msg |-> "Required keyword not found in email",
                              arg |-> missing[i]]]]

CheckNames == <<"cta_text", "cta_url", "unsubscribe", "footer", "keywords">>

compare_shortCircuit(docText, emailContent, config) ==
    LET results ==
            [cta_text |-> compareCTAText(docText, emailContent.ctaButtons,
                                         config.ctaTexts),
             cta_url |-> compareCTAUrls(emailContent.ctaButtons, config.ctaUrls),
             unsubscribe |-> checkUnsubscribe(emailContent, config.unsubscribeText),
             footer |-> checkFooter(emailContent.footer, emailContent.text,
                                    config.footerTexts),
             keywords |-> checkKeywords(emailContent.text, config.requiredKeywords)]
        failed(i) == ~Threw(results[CheckNames[i]])
                     /\ results[CheckNames[i]].status = "FAIL"
        last == IF \E i \in 1..Len(CheckNames) : failed(i)
                THEN CHOOSE i \in 1..Len(CheckNames) :
                        failed(i) /\ \A j \in 1..(i - 1) : ~failed(j)
                ELSE Len(CheckNames)
    IN  IF \E i \in 1..last : Threw(results[CheckNames[i]])
        THEN TypeError
        ELSE [k \in { CheckNames[i] : i \in 1..last } |-> results[k]]

\* compare(): the five checks in order; a TypeError of one of them
\* propagates to the caller.
\* (the first parameter is documentText in the source; the page's variable
\* has that name here)
compare(docText, emailContent, config) ==
    LET results ==
            [cta_text |-> compareCTAText(docText, emailContent.ctaButtons,
                                         config.ctaTexts),
             cta_url |-> compareCTAUrls(emailContent.ctaButtons, config.ctaUrls),
             unsubscribe |-> checkUnsubscribe(emailContent, config.unsubscribeText),
             footer |-> checkFooter(emailContent.footer, emailContent.text,
                                    config.footerTexts),
             keywords |-> checkKeywords(emailContent.text, config.requiredKeywords)]
    IN  IF \E i \in 1..Len(CheckNames) : Threw(results[CheckNames[i]])
        THEN TypeError
        ELSE results

\* ------------------------------------------------------------------------
\* EmailFetcher.stripTrackingParams (src/unnamed/part_001).  The query of a
\* parsed URL is the list of its [name, value] pairs; the characters of the
\* model's URLs need no percent-encoding.
\* ------------------------------------------------------------------------

trackingParams ==
    << <<"u", "t", "m", "_", "s", "o", "u", "r", "c", "e">>,
       <<"u", "t", "m", "_", "m", "e", "d", "i", "u", "m">>,
       <<"u", "t", "m", "_", "c", "a", "m", "p", "a", "i", "g", "n">>,
       <<"u", "t", "m", "_", "t", "e", "r", "m">>,
       <<"u", "t", "m", "_", "c", "o", "n", "t", "e", "n", "t">>,
       <<"e", "l", "q", "T", "r", "a", "c", "k">>,
       <<"e", "l", "q", "T", "r", "a", "c", "k", "I", "d">>,
       <<"m", "k", "t", "_", "t", "o", "k">>,
       <<"m", "c", "_", "c", "i", "d">>,
       <<"m", "c", "_", "e", "i", "d">>,
       <<"s", "f", "m", "c", "_", "i", "d">>,
       <<"s", "u", "b", "s", "c", "r", "i", "b", "e", "r", "_", "i", "d">>,
       <<"c", "o", "n", "t", "a", "c", "t", "_", "i", "d">>,
       <<"l", "e", "a", "d", "_", "i", "d">>,
       <<"_", "h", "s", "e", "n", "c">>,
       <<"_", "h", "s", "m", "i">>,
       <<"h", "s", "a", "_">>,
       <<"f", "b", "c", "l", "i", "d">>,
       <<"g", "c", "l", "i", "d">>,
       <<"m", "s", "c", "l", "k", "i", "d">>,
       <<"t", "r", "k">>,
       <<"t", "r", "a", "c", "k">>,
       <<"t", "r", "a", "c", "k", "i", "n", "g">>,
       <<"r", "e", "f">>,
       <<"s", "o", "u", "r", "c", "e">> >>

\* String.prototype.startsWith
startsWith(s, t) == Len(s) >= Len(t) /\ SubSeq(s, 1, Len(t)) = t

\* s.split(sep) for a one-character separator
RECURSIVE split(_, _)
split(s, sep) ==
    LET i == IndexOfAny(s, {sep})
    IN  IF i > Len(s)
        THEN <<s>>
        ELSE <<SubSeq(s, 1, i - 1)>> \o split(SubSeq(s, i + 1, Len(s)), sep)

\* urlObj.hash: the fragment with its leading "#", empty when there is none
UrlHash(url) ==
    LET a == UrlAfterHost(url)
    IN  SubSeq(a, IndexOfAny(a, {"#"}), Len(a))

\* One name=value piece of a query: the name up to the first "=", the
\* value after it (empty when there is no "=").
ParseParam(piece) ==
    LET i == IndexOfAny(piece, {"="})
    IN  [name |-> SubSeq(piece, 1, i - 1),
         value |-> SubSeq(piece, i + 1, Len(piece))]

\* urlObj.searchParams: the pairs of the query, empty pieces skipped
ParseQuery(search) ==
    IF search = <<>>
    THEN <<>>
    ELSE LET pieces == SelectSeq(split(Tail(search), "&"), LAMBDA x : x # <<>>)
         IN  [i \in 1..Len(pieces) |-> ParseParam(pieces[i])]

\* The serialisation of the pairs: name=value joined by "&"
RECURSIVE SerializeQuery(_)
SerializeQuery(list) ==
    IF list = <<>>
    THEN <<>>
    ELSE list[1].name \o <<"=">> \o list[1].value
         \o (IF Len(list) > 1 THEN <<"&">> ELSE <<>>)
         \o SerializeQuery(Tail(list))

\* searchParams.delete(name): every pair of that name goes
searchParamsDelete(list, name) == SelectSeq(list, LAMBDA x : x.name # name)

\* for (const [key] of urlObj.searchParams) { if (...) delete(key) }: the
\* iterator is an index into the live list, so after a deletion at index
\* the next pair it visits is the one that followed the deleted pair's
\* successor.
RECURSIVE DeleteStartingWith(_, _, _)
DeleteStartingWith(list, index, param) ==
    IF index > Len(list)
    THEN list
    ELSE IF startsWith(toLowerCase(list[index].name), toLowerCase(param))
         THEN DeleteStartingWith(searchParamsDelete(list, list[index].name),
                                 index + 1, param)
         ELSE DeleteStartingWith(list, index + 1, param)

\* this.trackingParams.forEach(param => ...) from the k-th entry on
RECURSIVE StripParams(_, _)
StripParams(list, k) ==
    IF k > Len(trackingParams)
    THEN list
    ELSE StripParams(
             DeleteStartingWith(searchParamsDelete(list, trackingParams[k]),
                                1, trackingParams[k]),
             k + 1)

\* urlObj.toString() after the deletions: origin, path, the serialised
\* pairs behind "?" when any is left, the fragment.
stripTrackingParams(url) ==
    IF ParsesAsURL(url)
    THEN LET list == StripParams(ParseQuery(UrlSearch(url)), 1)
         IN  UrlOrigin(url) \o UrlPathname(url)
             \o (IF list = <<>> THEN <<>> ELSE <<"?">> \o SerializeQuery(list))
             \o UrlHash(url)
    ELSE url

\* ------------------------------------------------------------------------
\* EmailFetcher.extractCTAs (src/unnamed/part_001).  The markup is the
\* sequence of its anchors in document order; an anchor is its text
\* ($el.text()), its href attribute ('' when it has none) and whether one of
\* the ctaSelectors matches it.
\* ------------------------------------------------------------------------

ctaKeywords ==
    << <<"s", "h", "o", "p">>,
       <<"b", "u", "y">>,
       <<"g", "e", "t">>,
       <<"l", "e", "a", "r", "n">>,
       <<"d", "i", "s", "c", "o", "v", "e", "r">>,
       <<"s", "t", "a", "r", "t">>,
       <<"t", "r", "y">>,
       <<"s", "i", "g", "n">>,
       <<"r", "e", "g", "i", "s", "t", "e", "r">>,
       <<"s", "u", "b", "s", "c", "r", "i", "b", "e">>,
       <<"d", "o", "w", "n", "l", "o", "a", "d">>,
       <<"v", "i", "e", "w">>,
       <<"s", "e", "e">>,
       <<"e", "x", "p", "l", "o", "r", "e">>,
       <<"c", "l", "a", "i", "m">>,
       <<"g", "r", "a", "b">>,
       <<"s", "a", "v", "e">> >>

\* /^(shop|buy|...)/i.test(text)
ctaKeywordsTest(text) ==
    \E k \in 1..Len(ctaKeywords) : startsWith(toLowerCase(text), ctaKeywords[k])

\* { text, url: href, cleanUrl: this.stripTrackingParams(href) }
CtaOf(anchor) ==
    [text |-> trim(anchor.text), url |-> anchor.href,
     cleanUrl |-> stripTrackingParams(anchor.href)]

\* $(ctaSelectors.join(', ')).each(...): every button-like anchor with text
\* and href is pushed.
ButtonLikeCTAs(anchors) ==
    LET qualifies(a) == a.buttonLike /\ trim(a.text) # <<>> /\ a.href # <<>>
        els == SelectSeq(anchors, qualifies)
    IN  [i \in 1..Len(els) |-> CtaOf(els[i])]

\* $('a').each(...) from the i-th anchor on: an anchor with text and href
\* whose text starts with an action word is pushed unless ctas already
\* holds that text.
RECURSIVE ProminentCTAs(_, _, _)
ProminentCTAs(ctas, anchors, i) ==
    IF i > Len(anchors)
    THEN ctas
    ELSE LET text == trim(anchors[i].text)
             href == anchors[i].href
         IN  IF /\ text # <<>>
                /\ href # <<>>
                /\ ctaKeywordsTest(text)
                /\ ~\E j \in 1..Len(ctas) : ctas[j].text = text
             THEN ProminentCTAs(Append(ctas, CtaOf(anchors[i])), anchors, i + 1)
             ELSE ProminentCTAs(ctas, anchors, i + 1)

extractCTAs(anchors) == ProminentCTAs(ButtonLikeCTAs(anchors), anchors, 1)

\* ------------------------------------------------------------------------
\* EmailFetcher.extractFooter (src/unnamed/part_001).  footerMatches holds,
\* for each of the four footerSelectors in order, the text of the first
\* element the selector matches, or Undefined when it matches none;
\* allText is $('body').text().
\* ------------------------------------------------------------------------

\* for (const selector of footerSelectors) from the i-th selector on: the
\* trimmed text of the first selector that matches an element, '' if none.
RECURSIVE FirstFooterText(_, _)
FirstFooterText(footerMatches, i) ==
    IF i > Len(footerMatches)
    THEN <<>>
    ELSE IF footerMatches[i].kind = "value"
         THEN trim(footerMatches[i].v)
         ELSE FirstFooterText(footerMatches, i + 1)

\* parts.join(sep)
RECURSIVE JoinWith(_, _)
JoinWith(parts, sep) ==
    IF parts = <<>>
    THEN <<>>
    ELSE parts[1] \o (IF Len(parts) > 1 THEN <<sep>> ELSE <<>>)
         \o JoinWith(Tail(parts), sep)

\* lines.slice(-n)
sliceLast(lines, n) ==
    IF Len(lines) <= n THEN lines ELSE SubSeq(lines, Len(lines) - n + 1, Len(lines))

\* lines.slice(0, n)
sliceFirst(lines, n) ==
    IF Len(lines) <= n THEN lines ELSE SubSeq(lines, 1, n)

extractFooter_firstLines(footerMatches, allText) ==
    LET footerText == FirstFooterText(footerMatches, 1)
    IN  IF footerText = <<>>
        THEN LET lines == SelectSeq(split(allText, "\n"),
                                    LAMBDA l : trim(l) # <<>>)
             IN  JoinWith(sliceFirst(lines, 5), "\n")
        ELSE footerText

extractFooter(footerMatches, allText) ==
    LET footerText == FirstFooterText(footerMatches, 1)
    IN  IF footerText = <<>>
        THEN LET lines == SelectSeq(split(allText, "\n"),
                                    LAMBDA l : trim(l) # <<>>)
             IN  JoinWith(sliceLast(lines, 5), "\n")
        ELSE footerText

\* ------------------------------------------------------------------------
\* EmailFetcher.findUnsubscribe (src/unnamed/part_001): bodyText is
\* $('body').text(), hrefs the href attributes of the anchors.  The
\* attribute selector a[href*="..."] has no i flag: it matches the value
\* as written.
\* ------------------------------------------------------------------------

findUnsubscribe(bodyText, hrefs) ==
    LET unsubText == toLowerCase(bodyText)
        hasUnsubText == \/ includes(unsubText, str_unsubscribe)
                        \/ includes(unsubText, str_opt_out)
                        \/ includes(unsubText, str_opt_dash_out)
        unsubLink == \E i \in 1..Len(hrefs) :
                        \/ includes(hrefs[i], str_unsubscribe)
                        \/ includes(hrefs[i], str_optout)
                        \/ includes(hrefs[i], str_opt_dash_out)
    IN  [hasText |-> hasUnsubText,
         hasLink |-> unsubLink,
         found |-> hasUnsubText \/ unsubLink]

\* ------------------------------------------------------------------------
\* ReportGenerator (src/services/reportGenerator.js)
\*
\* A semantic result is a record [headings, body_copy, offer, overall_match,
\* mock_mode, error]; overall_match is "true", "false" or "undefined" (the
\* property is missing), error says whether the error property is set.
\* ------------------------------------------------------------------------

SemanticFields == <<"headings", "body_copy", "offer">>

determineOverallStatus_noGate(functionResults, semanticResults, functionPassed) ==
    IF semanticResults.kind = "value" /\ semanticResults.v.overall_match # "true"
    THEN "FAIL"
    ELSE IF /\ semanticResults.kind = "value"
            /\ \E i \in 1..Len(SemanticFields) :
                   semanticResults.v[SemanticFields[i]].status = "FAIL"
         THEN "FAIL"
         ELSE "PASS"

determineOverallStatus(functionResults, semanticResults, functionPassed) ==
    IF ~functionPassed
    THEN "FAIL"
    ELSE IF semanticResults.kind = "value" /\ semanticResults.v.overall_match # "true"
         THEN "FAIL"
         ELSE IF /\ semanticResults.kind = "value"
                 /\ \E i \in 1..Len(SemanticFields) :
                        semanticResults.v[SemanticFields[i]].status = "FAIL"
              THEN "FAIL"
              ELSE "PASS"

\* result.issues && result.issues.length > 0
HasIssues(result) == "issues" \in DOMAIN result /\ Len(result.issues) > 0

\* result.issues.map(i => ({type, category: key, message: i, severity}))
TagIssues(issues, type, key, severity) ==
    [i \in 1..Len(issues) |->
        [type |-> type, category |-> key, message |-> issues[i],
         severity |-> severity]]

\* for (const [key, result] of Object.entries(functionResults)) from the
\* i-th key on: the keys come in the order compare() set them.
RECURSIVE FunctionIssues(_, _)
FunctionIssues(functionResults, i) ==
    IF i > Len(CheckNames)
    THEN <<>>
    ELSE (IF HasIssues(functionResults[CheckNames[i]])
          THEN TagIssues(functionResults[CheckNames[i]].issues, "function",
                         CheckNames[i], "critical")
          ELSE <<>>)
         \o FunctionIssues(functionResults, i + 1)

\* for (const [key, result] of Object.entries(semanticResults)) from the
\* i-th field on; the entries that are no objects have no issues.
RECURSIVE SemanticIssues(_, _)
SemanticIssues(semanticResults, i) ==
    IF i > Len(SemanticFields)
    THEN <<>>
    ELSE (IF HasIssues(semanticResults[SemanticFields[i]])
          THEN TagIssues(semanticResults[SemanticFields[i]].issues, "semantic",
                         SemanticFields[i], "warning")
          ELSE <<>>)
         \o SemanticIssues(semanticResults, i + 1)

collectIssues_semanticFirst(functionResults, semanticResults) ==
    (IF semanticResults.kind = "value"
     THEN SemanticIssues(semanticResults.v, 1)
     ELSE <<>>)
    \o FunctionIssues(functionResults, 1)

collectIssues(functionResults, semanticResults) ==
    FunctionIssues(functionResults, 1)
    \o (IF semanticResults.kind = "value"
        THEN SemanticIssues(semanticResults.v, 1)
        ELSE <<>>)

\* The keys formatFunctionResults copies; issues only when non-empty.
FormattedKeys ==
    {"status", "expected", "found", "matched", "missing", "message", "issues"}

formatFunctionResults(results) ==
    [k \in { CheckNames[i] : i \in 1..Len(CheckNames) } |->
        [f \in { g \in DOMAIN results[k] \cap FormattedKeys :
                     g = "issues" => HasIssues(results[k]) } |->
            results[k][f]]]

formatSemanticResults(results) ==
    IF results.kind # "value"
    THEN Null
    ELSE Val([headings |-> [status |-> results.v.headings.status],
              body_copy |-> [status |-> results.v.body_copy.status],
              offer |-> [status |-> results.v.offer.status],
              overall_match |-> results.v.overall_match])

\* k.replace('_', ' ') for the five check names
DisplayName ==
    [cta_text |-> "cta text", cta_url |-> "cta url",
     unsubscribe |-> "unsubscribe", footer |-> "footer", keywords |-> "keywords"]

\* One sentence of the summary.
Sentence(text) == [msg |-> text, arg |-> <<>>]

MockModeNote ==
    Sentence("Note: AI comparison ran in mock mode (configure OPENAI_API_KEY for full analysis).")

SkippedSentence == Sentence("AI semantic comparison was skipped.")

MatchSentence ==
    Sentence("Semantic analysis confirms content matches reference document.")

MismatchSentence ==
    Sentence("Semantic analysis detected potential content mismatches.")

\* The first two sentences: the verdict and the function checks.
SummaryHead(functionResults, overallStatus) ==
    LET failed == SelectSeq(CheckNames,
                            LAMBDA k : functionResults[k].status = "FAIL")
        funcFailed == [i \in 1..Len(failed) |-> DisplayName[failed[i]]]
    IN  << IF overallStatus = "PASS"
           THEN Sentence("Email passed all QA checks.")
           ELSE Sentence("Email failed QA checks."),
           IF Len(funcFailed) > 0
           THEN [msg |-> "Function checks failed", arg |-> funcFailed]
           ELSE Sentence("All function-based checks passed.") >>

generateSummary_noMockNote(functionResults, semanticResults, overallStatus, aiSkipped) ==
    SummaryHead(functionResults, overallStatus)
    \o (IF aiSkipped
        THEN <<SkippedSentence>>
        ELSE IF semanticResults.kind = "value"
             THEN IF semanticResults.v.overall_match = "true"
                  THEN <<MatchSentence>>
                  ELSE <<MismatchSentence>>
             ELSE <<>>)

\* generateSummary: the parts that parts.join(' ') puts together, in order.
generateSummary(functionResults, semanticResults, overallStatus, aiSkipped) ==
    SummaryHead(functionResults, overallStatus)
    \o (IF aiSkipped
        THEN <<SkippedSentence>>
        ELSE IF semanticResults.kind = "value"
             THEN (IF semanticResults.v.mock_mode
                   THEN <<MockModeNote>> ELSE <<>>)
                  \o (IF semanticResults.v.overall_match = "true"
                      THEN <<MatchSentence>>
                      ELSE <<MismatchSentence>>)
             ELSE <<>>)

\* generate: the report without its timestamp.
generate(functionResults, semanticResults, functionPassed, aiSkipped) ==
    LET issues == collectIssues(functionResults, semanticResults)
        overallStatus == determineOverallStatus(functionResults, semanticResults,
                                                functionPassed)
        summary == generateSummary(functionResults, semanticResults,
                                   overallStatus, aiSkipped)
    IN  [overall_status |-> overallStatus,
         exact_match_results |-> formatFunctionResults(functionResults),
         semantic_match_results |-> formatSemanticResults(semanticResults),
         issues |-> issues,
         summary |-> summary,
         metadata |-> [function_checks_passed |-> functionPassed,
                       ai_comparison_run |-> ~aiSkipped,
                       ai_mock_mode |-> /\ semanticResults.kind = "value"
                                        /\ semanticResults.v.mock_mode]]

\* ------------------------------------------------------------------------
\* The server (src/server.js)
\* ------------------------------------------------------------------------

VARIABLES
    documentStore,  \* the process-wide store of the uploaded document
    uploads,        \* the /api/upload requests
    tmpFiles,       \* uploads whose temporary file is in the uploads directory
    reqs,           \* the /api/compare requests
    call,           \* one call of a comparator or report-generator method
    documentText,   \* frontend: the document text held in the browser
    documentFilename, \* frontend: its file name
    emailFetched,   \* frontend: an email was fetched
    localStorage,   \* frontend: the item 'emailqa_document'
    uploadZone,     \* frontend: the upload zone element
    uploadStatus,   \* frontend: the upload status element
    emailUrl,       \* frontend: the URL input element
    compareBtn,     \* frontend: the compare button element
    resultsSection, \* frontend: the results section element
    uploadTask,     \* frontend: the pending call of uploadFile
    fetchTask,      \* frontend: the pending call of fetchEmail
    compareTasks    \* frontend: the pending calls of runComparison

\* The state of the page (src/unnamed/part_000)
frontend ==
    <<documentText, documentFilename, emailFetched, localStorage, uploadZone,
      uploadStatus, emailUrl, compareBtn, resultsSection, uploadTask,
      fetchTask, compareTasks>>

vars == <<documentStore, uploads, tmpFiles, reqs, call, frontend>>

UploadIds == 1..NumUpload

CompareIds == 1..NumCompare

EmptyStore == [text |-> Null, filename |-> "", uploadedAt |-> 0]

\* !x for a string: undefined, null or ''
Falsy(opt) == opt.kind # "value" \/ Len(opt.v) = 0

\* The files a client uploads: the text documentParser.parse extracts from
\* it, or ok = FALSE when parsing throws.
Files ==
    { [originalname |-> "a.txt", ok |-> TRUE, text |-> <<"a">>],
      [originalname |-> "b.txt", ok |-> TRUE, text |-> <<"b">>],
      [originalname |-> "empty.txt", ok |-> TRUE, text |-> <<>>],
      [originalname |-> "bad.pdf", ok |-> FALSE, text |-> <<>>] }

NoFile == [originalname |-> "", ok |-> FALSE, text |-> <<>>]

\* The config object of a request body: a field is Undefined when absent.
NoConfig ==
    [ctaTexts |-> Undefined, ctaUrls |-> Undefined, requiredKeywords |-> Undefined,
     unsubscribeText |-> Undefined, footerTexts |-> Undefined]

\* What the frontend's getConfig sends: four lists, no unsubscribeText.
FrontendConfig(ctaTexts, ctaUrls, requiredKeywords, footerTexts) ==
    [ctaTexts |-> Val(ctaTexts), ctaUrls |-> Val(ctaUrls),
     requiredKeywords |-> Val(requiredKeywords),
     unsubscribeText |-> Undefined, footerTexts |-> Val(footerTexts)]

\* The config objects of the request bodies in the server model: none, two
\* the frontend sends, and three of other clients, carrying null for a
\* list, null for unsubscribeText and '' for unsubscribeText.
ServerConfigs ==
    { NoConfig,
      FrontendConfig(<<txt_shop>>, <<url_p_id2>>, <<>>, <<>>),
      FrontendConfig(<<>>, <<>>, <<kw_zz>>, <<>>),
      [NoConfig EXCEPT !.footerTexts = Null],
      [NoConfig EXCEPT !.unsubscribeText = Null],
      [NoConfig EXCEPT !.unsubscribeText = Val(<<>>)] }

\* comparisonConfig: a default for each field, then ...config, which
\* overrides the default with whatever the request carries for that key.
comparisonConfig(config) ==
    [ctaTexts |-> IF config.ctaTexts.kind = "undefined"
                  THEN Val(<<>>) ELSE config.ctaTexts,
     ctaUrls |-> IF config.ctaUrls.kind = "undefined"
                 THEN Val(<<>>) ELSE config.ctaUrls,
     requiredKeywords |-> IF config.requiredKeywords.kind = "undefined"
                          THEN Val(<<>>) ELSE config.requiredKeywords,
     unsubscribeText |-> IF config.unsubscribeText.kind = "undefined"
                         THEN Val(str_unsubscribe) ELSE config.unsubscribeText,
     footerTexts |-> IF config.footerTexts.kind = "undefined"
                     THEN Val(<<>>) ELSE config.footerTexts]

\* What emailFetcher.fetch resolves to in the server model.
ServerEmails ==
    { [text |-> text_compliant,
       ctaButtons |-> <<[text |-> txt_shop_now, cleanUrl |-> url_p_id1]>>,
       hasUnsubscribe |-> findUnsubscribe(body_unsub, <<href_unsub>>),
       footer |-> ft_full],
      [text |-> text_compliant,
       ctaButtons |-> <<>>,
       hasUnsubscribe |-> findUnsubscribe(body_unsub, <<>>),
       footer |-> ft_full],
      [text |-> body_hello,
       ctaButtons |-> <<[text |-> txt_shop_now, cleanUrl |-> url_p_id1]>>,
       hasUnsubscribe |-> findUnsubscribe(body_hello, <<>>),
       footer |-> body_hello] }

SemanticField(status) ==
    [status |-> status,
     issues |-> IF status = "FAIL"
                THEN <<[msg |-> "Low word match - potential content mismatch",
                        arg |-> <<>>]>>
                ELSE <<>>]

\* The results semanticComparator.compare resolves to (formatResult and
\* mockCompare): any statuses, any overall_match, mock_mode set or not.
SemanticResults ==
    { [headings |-> SemanticField(h), body_copy |-> SemanticField(b),
       offer |-> SemanticField(o), overall_match |-> m, mock_mode |-> mock,
       error |-> FALSE] :
        h \in {"PASS", "FAIL"}, b \in {"PASS", "FAIL"}, o \in {"N/A", "FAIL"},
        m \in {"true", "false"}, mock \in BOOLEAN }

\* mockCompare: both text fields follow the word overlap, and so does
\* overall_match; mock_mode is set.
MockResult(passes) ==
    [headings |-> SemanticField(IF passes THEN "PASS" ELSE "FAIL"),
     body_copy |-> SemanticField(IF passes THEN "PASS" ELSE "FAIL"),
     offer |-> SemanticField("N/A"),
     overall_match |-> IF passes THEN "true" ELSE "false",
     mock_mode |-> TRUE, error |-> FALSE]

\* The results the collaborator returns in the server model: the two of
\* mockCompare, and formatResult's with everything matching, with
\* overall_match false, and with one field FAIL under overall_match true.
ServerSemanticResults ==
    { MockResult(TRUE), MockResult(FALSE) } \cup
    { s \in SemanticResults :
        /\ ~s.mock_mode
        /\ s.headings.status = "PASS"
        /\ s.offer.status = "N/A"
        /\ s.body_copy.status = "PASS" \/ s.overall_match = "true" }

\* semanticResults of the catch branch (AI unavailable)
SkippedAIUnavailable ==
    [headings |-> [status |-> "SKIPPED", issues |-> <<>>],
     body_copy |-> [status |-> "SKIPPED", issues |-> <<>>],
     offer |-> [status |-> "SKIPPED", issues |-> <<>>],
     overall_match |-> "undefined", mock_mode |-> FALSE, error |-> TRUE]

\* semanticResults of the else branch (function comparison failed)
SkippedFunctionFailed ==
    [headings |-> [status |-> "SKIPPED", issues |-> <<>>],
     body_copy |-> [status |-> "SKIPPED", issues |-> <<>>],
     offer |-> [status |-> "SKIPPED", issues |-> <<>>],
     overall_match |-> "undefined", mock_mode |-> FALSE, error |-> FALSE]

functionPassedOf_some(functionResults) ==
    \E i \in 1..Len(CheckNames) : functionResults[CheckNames[i]].status = "PASS"

\* Object.values(functionResults).every(r => r.status === 'PASS')
functionPassedOf(functionResults) ==
    \A i \in 1..Len(CheckNames) : functionResults[CheckNames[i]].status = "PASS"

NoResults == [none |-> TRUE]

NoReport == [none |-> TRUE]

IdleRequest ==
    [pc |-> "idle", status |-> 0, config |-> NoConfig, docAtCheck |-> Null,
     fnCalled |-> FALSE, refFn |-> Null, functionResults |-> NoResults,
     semCalled |-> FALSE, refSem |-> Null, hasReport |-> FALSE,
     aiSkipped |-> FALSE, semanticResults |-> Null, report |-> NoReport]

IdleCall == [op |-> "none", done |-> FALSE, args |-> <<>>, result |-> <<>>]

\* ------------------------------------------------------------------------
\* The page (src/unnamed/part_000): its three variables, the elements its
\* handlers read and write, and its pending asynchronous calls.
\* ------------------------------------------------------------------------

IdleUploadTask == [pc |-> "idle", file |-> NoFile, req |-> 0, accepted |-> FALSE]

IdleCompareTask ==
    [pc |-> "idle", url |-> <<>>, config |-> NoConfig, documentText |-> Null,
     emailFetched |-> FALSE]

\* compareBtn.disabled = !(documentText && emailFetched)
updateCompareButton(text, fetched) == [disabled |-> ~(~Falsy(text) /\ fetched)]

\* The item 'emailqa_document' when the page is opened: absent, or a
\* document saved by an earlier visit (it outlives restarts of the server).
SavedDocuments == {Null, Val([text |-> <<"b">>, filename |-> "b.txt"])}

\* The page after DOMContentLoaded: loadFromLocalStorage has shown the
\* saved document, if there is one.  The markup is not among the sources:
\* it is taken to show the upload zone, hide the results section, leave
\* the URL input empty and disable the compare button.
FrontendLoaded(saved) ==
    /\ localStorage = saved
    /\ documentText = IF saved = Null THEN Null ELSE Val(saved.v.text)
    /\ documentFilename = IF saved = Null THEN Null ELSE Val(saved.v.filename)
    /\ emailFetched = FALSE
    /\ uploadZone = [hidden |-> saved # Null]
    /\ uploadStatus = [textContent |-> IF saved = Null THEN "" ELSE "Ready"]
    /\ emailUrl = [value |-> <<>>]
    /\ compareBtn = IF saved = Null
                    THEN [disabled |-> TRUE]
                    ELSE updateCompareButton(Val(saved.v.text), FALSE)
    /\ resultsSection = [hidden |-> TRUE]
    /\ uploadTask = IdleUploadTask
    /\ fetchTask = [pc |-> "idle"]
    /\ compareTasks = [r \in CompareIds |-> IdleCompareTask]

Init ==
    /\ documentStore = EmptyStore
    /\ uploads = [u \in UploadIds |-> [pc |-> "idle", file |-> NoFile, status |-> 0]]
    /\ tmpFiles = {}
    /\ reqs = [r \in CompareIds |-> IdleRequest]
    /\ call = IdleCall
    /\ FrontendLoaded(Null)

\* POST /api/upload arrives without a file: 400.
UploadNoFile(u) ==
    /\ uploads[u].pc = "idle"
    /\ uploads' = [uploads EXCEPT ![u] = [pc |-> "done", file |-> NoFile, status |-> 400]]
    /\ UNCHANGED <<documentStore, tmpFiles, reqs, call, frontend>>

\* POST /api/upload with a file: multer has written the temporary file,
\* the handler awaits documentParser.parse.
UploadStart(u, f) ==
    /\ uploads[u].pc = "idle"
    /\ uploads' = [uploads EXCEPT ![u] = [pc |-> "parsing", file |-> f, status |-> 0]]
    /\ tmpFiles' = tmpFiles \cup {u}
    /\ UNCHANGED <<documentStore, reqs, call, frontend>>

\* parse resolved: the store is replaced, the temporary file unlinked.
UploadParsed(u) ==
    /\ uploads[u].pc = "parsing"
    /\ uploads[u].file.ok
    /\ documentStore' = [text |-> Val(uploads[u].file.text),
                         filename |-> uploads[u].file.originalname,
                         uploadedAt |-> u]
    /\ tmpFiles' = tmpFiles \ {u}
    /\ uploads' = [uploads EXCEPT ![u].pc = "done", ![u].status = 200]
    /\ UNCHANGED <<reqs, call, frontend>>

\* parse rejected: the catch block answers 500.
UploadParseFailed(u) ==
    /\ uploads[u].pc = "parsing"
    /\ ~uploads[u].file.ok
    /\ uploads' = [uploads EXCEPT ![u].pc = "done", ![u].status = 500]
    /\ UNCHANGED <<documentStore, tmpFiles, reqs, call, frontend>>

\* DELETE /api/document
DeleteDocument ==
    /\ documentStore' = EmptyStore
    /\ UNCHANGED <<uploads, tmpFiles, reqs, call, frontend>>

\* POST /api/compare up to the await of emailFetcher.fetch.
CompareStart(r, hasUrl, config) ==
    /\ reqs[r].pc = "idle"
    /\ IF Falsy(documentStore.text) \/ ~hasUrl
       THEN reqs' = [reqs EXCEPT ![r].pc = "done", ![r].status = 400]
       ELSE reqs' = [reqs EXCEPT ![r].pc = "fetching", ![r].config = config,
                                 ![r].docAtCheck = documentStore.text]
    /\ UNCHANGED <<documentStore, uploads, tmpFiles, call, frontend>>

\* emailFetcher.fetch rejected: the catch block answers 500.
CompareFetchFailed(r) ==
    /\ reqs[r].pc = "fetching"
    /\ reqs' = [reqs EXCEPT ![r].pc = "done", ![r].status = 500]
    /\ UNCHANGED <<documentStore, uploads, tmpFiles, call, frontend>>

\* The values documentStore.text takes.
ServerDocuments == {Null} \cup { Val(f.text) : f \in Files }

\* functionComparator.compare(documentStore.text, emailContent,
\* comparisonConfig) for every reference text, email content and request
\* configuration of the server model, evaluated once.
ServerCompare ==
    [reference \in ServerDocuments, emailContent \in ServerEmails,
     config \in ServerConfigs |->
        compare(reference, emailContent, comparisonConfig(config))]

\* emailFetcher.fetch resolved: the function comparison, then either the
\* call of the semantic comparator or the report.
CompareFetched(r, emailContent) ==
    /\ reqs[r].pc = "fetching"
    /\ LET functionResults ==
               ServerCompare[documentStore.text, emailContent, reqs[r].config]
       IN  IF Threw(functionResults)
           THEN reqs' = [reqs EXCEPT ![r].pc = "done", ![r].status = 500,
                                     ![r].fnCalled = TRUE,
                                     ![r].refFn = documentStore.text]
           ELSE IF functionPassedOf(functionResults)
                THEN reqs' = [reqs EXCEPT ![r].pc = "semantic",
                                          ![r].fnCalled = TRUE,
                                          ![r].refFn = documentStore.text,
                                          ![r].functionResults = functionResults,
                                          ![r].semCalled = TRUE,
                                          ![r].refSem = documentStore.text]
                ELSE reqs' = [reqs EXCEPT ![r].pc = "done", ![r].status = 200,
                                          ![r].fnCalled = TRUE,
                                          ![r].refFn = documentStore.text,
                                          ![r].functionResults = functionResults,
                                          ![r].aiSkipped = TRUE,
                                          ![r].semanticResults =
                                              Val(SkippedFunctionFailed),
                                          ![r].hasReport = TRUE,
                                          ![r].report =
                                              generate(functionResults,
                                                       Val(SkippedFunctionFailed),
                                                       FALSE, TRUE)]
    /\ UNCHANGED <<documentStore, uploads, tmpFiles, call, frontend>>

\* semanticComparator.compare resolved.  It reads documentText, so it only
\* resolves when the reference it was handed is a string.
CompareSemanticReturned(r, semanticResults) ==
    /\ reqs[r].pc = "semantic"
    /\ reqs[r].refSem.kind = "value"
    /\ reqs' = [reqs EXCEPT ![r].pc = "done", ![r].status = 200,
                            ![r].semanticResults = Val(semanticResults),
                            ![r].hasReport = TRUE,
                            ![r].report = generate(reqs[r].functionResults,
                                                   Val(semanticResults),
                                                   TRUE, FALSE)]
    /\ UNCHANGED <<documentStore, uploads, tmpFiles, call, frontend>>

\* semanticComparator.compare rejected: the inner catch builds the skipped
\* result and the report is still generated.
CompareSemanticThrew(r) ==
    /\ reqs[r].pc = "semantic"
    /\ reqs' = [reqs EXCEPT ![r].pc = "done", ![r].status = 200,
                            ![r].aiSkipped = TRUE,
                            ![r].semanticResults = Val(SkippedAIUnavailable),
                            ![r].hasReport = TRUE,
                            ![r].report = generate(reqs[r].functionResults,
                                                   Val(SkippedAIUnavailable),
                                                   TRUE, TRUE)]
    /\ UNCHANGED <<documentStore, uploads, tmpFiles, call, frontend>>

Next ==
    \/ \E u \in UploadIds : UploadNoFile(u)
    \/ \E u \in UploadIds, f \in Files : UploadStart(u, f)
    \/ \E u \in UploadIds : UploadParsed(u)
    \/ \E u \in UploadIds : UploadParseFailed(u)
    \/ DeleteDocument
    \/ \E r \in CompareIds, hasUrl \in BOOLEAN, config \in ServerConfigs :
           CompareStart(r, hasUrl, config)
    \/ \E r \in CompareIds : CompareFetchFailed(r)
    \/ \E r \in CompareIds, emailContent \in ServerEmails :
           CompareFetched(r, emailContent)
    \/ \E r \in CompareIds, semanticResults \in ServerSemanticResults :
           CompareSemanticReturned(r, semanticResults)
    \/ \E r \in CompareIds : CompareSemanticThrew(r)

Spec == Init /\ [][Next]_vars

\* ------------------------------------------------------------------------
\* The page and the server together: the page is the server's only client.
\* A request of the page takes a free request of the server model; once
\* the page has read the answer the request is free again.
\* ------------------------------------------------------------------------

\* The routes src/server.js defines.
ServerRoutes ==
    { [method |-> "POST", path |-> "/api/upload"],
      [method |-> "POST", path |-> "/api/fetch-email"],
      [method |-> "POST", path |-> "/api/compare"],
      [method |-> "GET", path |-> "/api/document"],
      [method |-> "DELETE", path |-> "/api/document"],
      [method |-> "GET", path |-> "/api/health"] }

\* fetch(`${API_BASE}/api/document/text`)
DocumentTextRoute == [method |-> "GET", path |-> "/api/document/text"]

\* What the page's GET of the document text is answered: a JSON body with
\* the stored text if the server has the route, else the 404 page of
\* Express, which is not JSON.
DocumentTextResponses ==
    IF DocumentTextRoute \in ServerRoutes
    THEN { [json |-> TRUE, text |-> documentStore.text] }
    ELSE { [json |-> FALSE, text |-> Undefined] }

\* The texts typed into the URL input.
UrlInputs == {<<>>, url_p}

\* getConfig(): the four lists of the configuration text areas, here with
\* one CTA text and one CTA URL typed in.
PageConfigs == { FrontendConfig(<<txt_shop>>, <<url_p_id2>>, <<>>, <<>>) }

\* The files the user picks: one that parses and one that does not.
PageFiles == { f \in Files : f.originalname \in {"a.txt", "bad.pdf"} }

\* What the semantic comparator answers the requests of the page.
PageSemanticResults == { MockResult(TRUE), MockResult(FALSE) }

UploadPosts == {"post1", "post2", "post3"}

FreeUpload(u) == [pc |-> "idle", file |-> NoFile, status |-> 0]

\* handleFileSelect, handleDrop: uploadFile(file) up to its first await.
\* The upload zone is shown, and no other upload of the page is pending.
uploadFile(f, u) ==
    /\ ~uploadZone.hidden
    /\ uploadTask.pc \in {"idle", "finished"}
    /\ uploads[u].pc = "idle"
    /\ uploadStatus' = [textContent |-> "Processing..."]
    /\ uploadTask' = [pc |-> "post1", file |-> f, req |-> u, accepted |-> FALSE]
    /\ UNCHANGED <<documentStore, uploads, tmpFiles, reqs, call, documentText,
                   documentFilename, emailFetched, localStorage, uploadZone,
                   emailUrl, compareBtn, resultsSection, fetchTask, compareTasks>>

\* The server receives a POST /api/upload of the page.
UploadFromPage(u) ==
    /\ uploadTask.pc \in UploadPosts
    /\ uploadTask.req = u
    /\ UploadStart(u, uploadTask.file)

\* uploadFile after its first POST is answered: a second POST on success,
\* else the catch block.
uploadFile_answered ==
    /\ uploadTask.pc = "post1"
    /\ uploads[uploadTask.req].pc = "done"
    /\ IF uploads[uploadTask.req].status = 200
       THEN /\ uploadTask' = [uploadTask EXCEPT !.pc = "post2", !.accepted = TRUE]
            /\ UNCHANGED uploadStatus
       ELSE /\ uploadTask' = [uploadTask EXCEPT !.pc = "finished"]
            /\ uploadStatus' = [textContent |-> "Error"]
    /\ uploads' = [uploads EXCEPT ![uploadTask.req] = FreeUpload(uploadTask.req)]
    /\ UNCHANGED <<documentStore, tmpFiles, reqs, call, documentText,
                   documentFilename, emailFetched, localStorage, uploadZone,
                   emailUrl, compareBtn, resultsSection, fetchTask, compareTasks>>

\* uploadFile after its second POST is answered: the answer is dropped,
\* documentFilename is set and fetchFullDocumentText posts the file again.
uploadFile_answeredAgain ==
    /\ uploadTask.pc = "post2"
    /\ uploads[uploadTask.req].pc = "done"
    /\ documentFilename' = Val(uploadTask.file.originalname)
    /\ uploadTask' = [uploadTask EXCEPT !.pc = "post3"]
    /\ uploads' = [uploads EXCEPT ![uploadTask.req] = FreeUpload(uploadTask.req)]
    /\ UNCHANGED <<documentStore, tmpFiles, reqs, call, documentText,
                   emailFetched, localStorage, uploadZone, uploadStatus,
                   emailUrl, compareBtn, resultsSection, fetchTask, compareTasks>>

\* fetchFullDocumentText after its POST is answered: on success it asks
\* for the full text.
fetchFullDocumentText_answered ==
    /\ uploadTask.pc = "post3"
    /\ uploads[uploadTask.req].pc = "done"
    /\ uploadTask' = [uploadTask EXCEPT
                         !.pc = IF uploads[uploadTask.req].status = 200
                                THEN "getText" ELSE "finished"]
    /\ uploads' = [uploads EXCEPT ![uploadTask.req] = FreeUpload(uploadTask.req)]
    /\ UNCHANGED <<documentStore, tmpFiles, reqs, call, documentText,
                   documentFilename, emailFetched, localStorage, uploadZone,
                   uploadStatus, emailUrl, compareBtn, resultsSection,
                   fetchTask, compareTasks>>

\* fetchFullDocumentText after the GET of the full text is answered:
\* fullRes.json() rejects on a body that is not JSON (the catch block);
\* a truthy fullData.text is kept, saved and shown.
fetchFullDocumentText_text(fullRes) ==
    /\ uploadTask.pc = "getText"
    /\ IF ~fullRes.json
       THEN /\ uploadStatus' = [textContent |-> "Error"]
            /\ UNCHANGED <<documentText, documentFilename, localStorage,
                           uploadZone, compareBtn>>
       ELSE IF Falsy(fullRes.text)
            THEN UNCHANGED <<documentText, documentFilename, localStorage,
                             uploadZone, uploadStatus, compareBtn>>
            ELSE /\ documentText' = fullRes.text
                 /\ documentFilename' = Val(uploadTask.file.originalname)
                 /\ localStorage' = Val([text |-> fullRes.text.v,
                                         filename |-> uploadTask.file.originalname])
                 /\ uploadZone' = [hidden |-> TRUE]
                 /\ uploadStatus' = [textContent |-> "Ready"]
                 /\ compareBtn' = updateCompareButton(fullRes.text, emailFetched)
    /\ uploadTask' = [uploadTask EXCEPT !.pc = "finished"]
    /\ UNCHANGED <<documentStore, uploads, tmpFiles, reqs, call, emailFetched,
                   emailUrl, resultsSection, fetchTask, compareTasks>>

\* The remove button of the shown file.
removeFile ==
    /\ uploadZone.hidden
    /\ localStorage' = Null
    /\ documentText' = Null
    /\ documentFilename' = Null
    /\ uploadZone' = [hidden |-> FALSE]
    /\ uploadStatus' = [textContent |-> ""]
    /\ compareBtn' = updateCompareButton(Null, emailFetched)
    /\ UNCHANGED <<documentStore, uploads, tmpFiles, reqs, call, emailFetched,
                   emailUrl, resultsSection, uploadTask, fetchTask, compareTasks>>

\* The user edits the URL input.
TypeUrl(value) ==
    /\ emailUrl.value # value
    /\ emailUrl' = [value |-> value]
    /\ UNCHANGED <<documentStore, uploads, tmpFiles, reqs, call, documentText,
                   documentFilename, emailFetched, localStorage, uploadZone,
                   uploadStatus, compareBtn, resultsSection, uploadTask,
                   fetchTask, compareTasks>>

\* fetchEmail up to its await; with an empty URL it alerts and returns.
fetchEmail ==
    /\ fetchTask.pc = "idle"
    /\ Len(trim(emailUrl.value)) > 0
    /\ fetchTask' = [pc |-> "awaiting"]
    /\ UNCHANGED <<documentStore, uploads, tmpFiles, reqs, call, documentText,
                   documentFilename, emailFetched, localStorage, uploadZone,
                   uploadStatus, emailUrl, compareBtn, resultsSection,
                   uploadTask, compareTasks>>

\* POST /api/fetch-email answered, with success or with the error of
\* emailFetcher.fetch.
fetchEmail_answered(success) ==
    /\ fetchTask.pc = "awaiting"
    /\ IF success
       THEN /\ emailFetched' = TRUE
            /\ compareBtn' = updateCompareButton(documentText, TRUE)
       ELSE UNCHANGED <<emailFetched, compareBtn>>
    /\ fetchTask' = [pc |-> "idle"]
    /\ UNCHANGED <<documentStore, uploads, tmpFiles, reqs, call, documentText,
                   documentFilename, localStorage, uploadZone, uploadStatus,
                   emailUrl, resultsSection, uploadTask, compareTasks>>

\* A click on the enabled compare button: runComparison up to its await.
runComparison(r, config) ==
    /\ ~compareBtn.disabled
    /\ compareTasks[r].pc = "idle"
    /\ reqs[r].pc = "idle"
    /\ compareBtn' = [disabled |-> TRUE]
    /\ compareTasks' = [compareTasks EXCEPT ![r] =
                           [pc |-> "sent", url |-> trim(emailUrl.value),
                            config |-> config, documentText |-> documentText,
                            emailFetched |-> emailFetched]]
    /\ UNCHANGED <<documentStore, uploads, tmpFiles, reqs, call, documentText,
                   documentFilename, emailFetched, localStorage, uploadZone,
                   uploadStatus, emailUrl, resultsSection, uploadTask, fetchTask>>

\* The server receives a POST /api/compare of the page: it reads url and
\* config of the body.
CompareFromPage(r) ==
    /\ compareTasks[r].pc = "sent"
    /\ CompareStart(r, Len(compareTasks[r].url) > 0, compareTasks[r].config)

\* runComparison after its POST is answered: the results are displayed
\* unless the body carries an error, and the finally block runs.
runComparison_answered(r) ==
    /\ compareTasks[r].pc = "sent"
    /\ reqs[r].pc = "done"
    /\ resultsSection' = IF reqs[r].status = 200
                         THEN [hidden |-> FALSE] ELSE resultsSection
    /\ compareBtn' = [disabled |-> FALSE]
    /\ compareTasks' = [compareTasks EXCEPT ![r] = IdleCompareTask]
    /\ reqs' = [reqs EXCEPT ![r] = IdleRequest]
    /\ UNCHANGED <<documentStore, uploads, tmpFiles, call, documentText,
                   documentFilename, emailFetched, localStorage, uploadZone,
                   uploadStatus, emailUrl, uploadTask, fetchTask>>

\* The new-comparison button of the shown results.
resetComparison ==
    /\ ~resultsSection.hidden
    /\ resultsSection' = [hidden |-> TRUE]
    /\ emailUrl' = [value |-> <<>>]
    /\ emailFetched' = FALSE
    /\ compareBtn' = updateCompareButton(documentText, FALSE)
    /\ UNCHANGED <<documentStore, uploads, tmpFiles, reqs, call, documentText,
                   documentFilename, localStorage, uploadZone, uploadStatus,
                   uploadTask, fetchTask, compareTasks>>

InitUI ==
    /\ documentStore = EmptyStore
    /\ uploads = [u \in UploadIds |-> FreeUpload(u)]
    /\ tmpFiles = {}
    /\ reqs = [r \in CompareIds |-> IdleRequest]
    /\ call = IdleCall
    /\ \E saved \in SavedDocuments : FrontendLoaded(saved)

NextUI ==
    \/ \E f \in PageFiles, u \in UploadIds : uploadFile(f, u)
    \/ \E u \in UploadIds : UploadFromPage(u)
    \/ \E u \in UploadIds : UploadParsed(u)
    \/ \E u \in UploadIds : UploadParseFailed(u)
    \/ uploadFile_answered
    \/ uploadFile_answeredAgain
    \/ fetchFullDocumentText_answered
    \/ \E fullRes \in DocumentTextResponses : fetchFullDocumentText_text(fullRes)
    \/ removeFile
    \/ \E value \in UrlInputs : TypeUrl(value)
    \/ fetchEmail
    \/ \E success \in BOOLEAN : fetchEmail_answered(success)
    \/ \E r \in CompareIds, config \in PageConfigs : runComparison(r, config)
    \/ \E r \in CompareIds : CompareFromPage(r)
    \/ \E r \in CompareIds : CompareFetchFailed(r)
    \/ \E r \in CompareIds, emailContent \in ServerEmails :
           CompareFetched(r, emailContent)
    \/ \E r \in CompareIds, semanticResults \in PageSemanticResults :
           CompareSemanticReturned(r, semanticResults)
    \/ \E r \in CompareIds : CompareSemanticThrew(r)
    \/ \E r \in CompareIds : runComparison_answered(r)
    \/ resetComparison

SpecUI == InitUI /\ [][NextUI]_vars

\* ------------------------------------------------------------------------
\* Calls of single methods: the arguments are drawn in the initial state
\* and the one action of each method applies it.
\* ------------------------------------------------------------------------

BoundedSeqs(S, n) == UNION { [1..k -> S] : k \in 0..n }

\* A list argument: absent, null, or a list of at most MaxList strings.
OptLists(S) == {Undefined, Null} \cup { Val(l) : l \in BoundedSeqs(S, MaxList) }

CtaTextSamples == {txt_shop_now, txt_shop, txt_buy, txt_now}

LabelSamples ==
    {txt_shop, lbl_shop_now_padded, lbl_shop_now_bang, lbl_buy, lbl_x, <<>>}

CtaUrlSamples == {url_p, url_p_id1, url_P_slash_upper, rel_p_id1, url_q}

ExpectedUrlSamples == {url_p_id2, url_P_slash_upper, rel_p, rel_p_id2, url_q}

UnsubBodySamples == {body_unsub, body_optout, body_hello}

HrefSamples == {href_unsub, href_Unsub, href_optout, url_p}

UnsubTextSamples == {body_hello, text_stop, text_unsub, <<>>}

RequiredTextSamples == {Undefined, Val(str_unsubscribe), Val(req_stop)}

FooterSamples == {<<>>, ft_all_upper, ft_all_rights, ft_term, ft_full}

FooterFullTextSamples == {body_hello, ft_reserved, ft_s, ft_full, text_compliant}

FooterRequiredSamples == {str_terms, ft_all_upper, kw_zz}

KeywordTextSamples == {text_sale, body_hello, <<>>}

KeywordSamples == {kw_sale, kw_off, kw_zz, lbl_x}

\* The ctaButtons extractCTAs yields: non-empty trimmed text, a cleaned URL.
CtaLists(texts, urls) ==
    BoundedSeqs({ [text |-> t, cleanUrl |-> u] : t \in texts, u \in urls }, MaxCtas)

\* Configurations handed to compare(): every list field is a list of
\* strings (empty or not), unsubscribeText a string or absent; NoConfig is
\* the configuration with every field missing.
CompareConfigs ==
    [ctaTexts : {Val(<<>>), Val(<<txt_shop>>), Val(<<lbl_x>>)},
     ctaUrls : {Val(<<>>), Val(<<url_p_id2>>), Val(<<url_q>>)},
     requiredKeywords : {Val(<<>>), Val(<<kw_zz>>)},
     unsubscribeText : {Undefined, Val(req_stop)},
     footerTexts : {Val(<<>>), Val(<<kw_zz>>)}] \cup {NoConfig}

ParamSamples ==
    {par_utm_source, par_utm_source_b, par_utm_source_c, par_UTM_Medium, par_id,
     par_trk_x, par_q, par_referrer}

\* With and without a scheme, in lower and upper case, with and without a
\* trailing slash.
UrlBases == {url_p, url_P_slash_upper, rel_p, rel_P_slash_upper}

\* The URL string with the given name=value pieces as its query.
UrlWithQuery(base, params) ==
    IF params = <<>> THEN base ELSE base \o <<"?">> \o JoinWith(params, "&")

UrlSamples ==
    { UrlWithQuery(b, q) : b \in UrlBases, q \in BoundedSeqs(ParamSamples, MaxParams) }

AnchorSamples ==
    [text : {txt_shop_now, txt_shop_now_padded, body_hello, txt_blank},
     href : {url_p, url_q_utm, <<>>},
     buttonLike : BOOLEAN]

\* Function results handed to generate(): what compare() returns, when it
\* returns, for the server's emails under the server's configurations and
\* one more.
GenerateFunctionResults ==
    { x \in { compare(<<"a">>, e, c) :
                e \in ServerEmails,
                c \in ServerConfigs \cup
                      {FrontendConfig(<<lbl_x, lbl_buy>>, <<url_q>>, <<kw_zz>>,
                                      <<kw_zz>>)} } :
        ~Threw(x) }

\* A formatResult result whose fields carry the issues the API listed.
SemanticWithIssues ==
    [headings |-> [status |-> "FAIL",
                   issues |-> <<[msg |-> "heading differs", arg |-> <<>>],
                                [msg |-> "heading missing", arg |-> <<>>]>>],
     body_copy |-> [status |-> "PASS", issues |-> <<>>],
     offer |-> [status |-> "FAIL",
                issues |-> <<[msg |-> "offer value differs", arg |-> <<>>]>>],
     overall_match |-> "false", mock_mode |-> FALSE, error |-> FALSE]

\* Semantic results handed to generate(): null, the collaborator's, the two
\* skipped results of the server.
GenerateSemanticResults ==
    {Null} \cup
    { Val(x) : x \in ServerSemanticResults \cup
                     {SemanticWithIssues, SkippedAIUnavailable,
                      SkippedFunctionFailed} }

Digits == <<"1", "2", "3", "4", "5", "6", "7", "8", "9">>

\* The i-th line of a body text: indented, so that trimming would show.
BodyLine(i) == <<" ", "L", Digits[i]>>

\* The lines of a body text: n lines, blank at the positions of blankAt.
BodyLines ==
    { [i \in 1..n |-> IF i \in blankAt THEN txt_blank ELSE BodyLine(i)] :
        n \in 0..MaxLines, blankAt \in SUBSET (1..MaxLines) }

\* What the four footer selectors match: nothing; an empty footer element
\* and a .footer element with text; a .footer element; a blank #footer.
FooterMatchSamples ==
    { <<Undefined, Undefined, Undefined, Undefined>>,
      <<Val(<<>>), Val(ft_full), Val(ft_full), Undefined>>,
      <<Undefined, Val(ft_padded), Val(ft_padded), Undefined>>,
      <<Undefined, Undefined, Undefined, Val(txt_blank)>> }

NewCall(op, args) == [op |-> op, done |-> FALSE, args |-> args, result |-> <<>>]

InitCalls ==
    /\ documentStore = EmptyStore
    /\ uploads = [u \in UploadIds |-> [pc |-> "idle", file |-> NoFile, status |-> 0]]
    /\ tmpFiles = {}
    /\ reqs = [r \in CompareIds |-> IdleRequest]
    /\ FrontendLoaded(Null)
    /\ \/ \E c \in CtaLists(CtaTextSamples, {url_p}), e \in OptLists(LabelSamples) :
              call = NewCall("compareCTAText", [emailCTAs |-> c, expected |-> e])
       \/ \E c \in CtaLists({txt_shop_now}, CtaUrlSamples),
             e \in OptLists(ExpectedUrlSamples) :
              call = NewCall("compareCTAUrls", [emailCTAs |-> c, expected |-> e])
       \/ \E t \in UnsubTextSamples, b \in UnsubBodySamples,
             h \in BoundedSeqs(HrefSamples, MaxCtas), q \in RequiredTextSamples :
              call = NewCall("checkUnsubscribe",
                             [emailContent |-> [text |-> t,
                                                hasUnsubscribe |-> findUnsubscribe(b, h)],
                              requiredText |-> q])
       \/ \E f \in FooterSamples, t \in FooterFullTextSamples,
             q \in (OptLists(FooterRequiredSamples) \ {Null})
                       \cup {Val(defaultCompliance)} :
              call = NewCall("checkFooter",
                             [footerText |-> f, fullText |-> t, requiredTexts |-> q])
       \/ \E t \in KeywordTextSamples, k \in OptLists(KeywordSamples) :
              call = NewCall("checkKeywords", [emailText |-> t, expected |-> k])
       \/ \E e \in ServerEmails, c \in CompareConfigs :
              call = NewCall("compare", [emailContent |-> e, config |-> c])
       \/ \E a \in BoundedSeqs(AnchorSamples, MaxAnchors) :
              call = NewCall("extractCTAs", [anchors |-> a])
       \/ \E f \in GenerateFunctionResults, x \in GenerateSemanticResults,
             passed \in BOOLEAN, skipped \in BOOLEAN :
              call = NewCall("generate",
                             [functionResults |-> f, semanticResults |-> x,
                              functionPassed |-> passed, aiSkipped |-> skipped])
       \/ \E m \in FooterMatchSamples, l \in BodyLines :
              call = NewCall("extractFooter",
                             [footerMatches |-> m, lines |-> l,
                              allText |-> JoinWith(l, "\n")])
       \/ \E b \in UnsubBodySamples, h \in BoundedSeqs(HrefSamples, MaxAnchors) :
              call = NewCall("findUnsubscribe", [bodyText |-> b, hrefs |-> h])
       \/ \E u \in UrlSamples :
              call = NewCall("stripTrackingParams", [url |-> u])
       \/ \E b \in UrlBases, q \in BoundedSeqs({par_id, par_utm_source}, 1) :
              call = NewCall("normalizeUrl", [url |-> UrlWithQuery(b, q)])

Return(result) ==
    /\ call' = [call EXCEPT !.done = TRUE, !.result = result]
    /\ UNCHANGED <<documentStore, uploads, tmpFiles, reqs, frontend>>

CallCompareCTAText ==
    /\ call.op = "compareCTAText" /\ ~call.done
    /\ Return(compareCTAText(<<>>, call.args.emailCTAs, call.args.expected))

CallCompareCTAUrls ==
    /\ call.op = "compareCTAUrls" /\ ~call.done
    /\ Return(compareCTAUrls(call.args.emailCTAs, call.args.expected))

CallCheckUnsubscribe ==
    /\ call.op = "checkUnsubscribe" /\ ~call.done
    /\ Return(checkUnsubscribe(call.args.emailContent, call.args.requiredText))

CallCheckFooter ==
    /\ call.op = "checkFooter" /\ ~call.done
    /\ Return(checkFooter(call.args.footerText, call.args.fullText,
                          call.args.requiredTexts))

CallCheckKeywords ==
    /\ call.op = "checkKeywords" /\ ~call.done
    /\ Return(checkKeywords(call.args.emailText, call.args.expected))

CallCompare ==
    /\ call.op = "compare" /\ ~call.done
    /\ Return(compare(<<"a">>, call.args.emailContent, call.args.config))

CallStripTrackingParams ==
    /\ call.op = "stripTrackingParams" /\ ~call.done
    /\ Return(Val(stripTrackingParams(call.args.url)))

CallNormalizeUrl ==
    /\ call.op = "normalizeUrl" /\ ~call.done
    /\ Return(Val(normalizeUrl(call.args.url)))

CallExtractCTAs ==
    /\ call.op = "extractCTAs" /\ ~call.done
    /\ Return(extractCTAs(call.args.anchors))

CallGenerate ==
    /\ call.op = "generate" /\ ~call.done
    /\ Return(generate(call.args.functionResults, call.args.semanticResults,
                       call.args.functionPassed, call.args.aiSkipped))

CallExtractFooter ==
    /\ call.op = "extractFooter" /\ ~call.done
    /\ Return(Val(extractFooter(call.args.footerMatches, call.args.allText)))

CallFindUnsubscribe ==
    /\ call.op = "findUnsubscribe" /\ ~call.done
    /\ Return(findUnsubscribe(call.args.bodyText, call.args.hrefs))

NextCalls ==
    \/ CallCompareCTAText
    \/ CallCompareCTAUrls
    \/ CallCheckUnsubscribe
    \/ CallCheckFooter
    \/ CallCheckKeywords
    \/ CallCompare
    \/ CallStripTrackingParams
    \/ CallNormalizeUrl
    \/ CallExtractCTAs
    \/ CallGenerate
    \/ CallExtractFooter
    \/ CallFindUnsubscribe

SpecCalls == InitCalls /\ [][NextCalls]_vars

Returned(op) == call.op = op /\ call.done

\* ------------------------------------------------------------------------
\* Properties
\* ------------------------------------------------------------------------

Statuses(functionResults) ==
    { functionResults[CheckNames[i]].status : i \in 1..Len(CheckNames) }

\* The request holds the five results of functionComparator.compare.
HasResults(req) == "cta_text" \in DOMAIN req.functionResults

NoIssues(result) == "issues" \notin DOMAIN result \/ Len(result.issues) = 0

IssueArgs(result) == [i \in 1..Len(result.issues) |-> result.issues[i].arg]

\* C1 (gating): every report /api/compare produces from function results
\* with at least one FAIL has overall_status FAIL, and FAIL is the overall
\* status generate determines for those results with functionPassed =
\* false for any semantic result whatever (null, overall_match true, all
\* fields PASS).
C1_Gating ==
    \A r \in CompareIds :
        (reqs[r].hasReport /\ "FAIL" \in Statuses(reqs[r].functionResults)) =>
            /\ reqs[r].report.overall_status = "FAIL"
            /\ \A sem \in {Null} \cup { Val(x) : x \in SemanticResults } :
                   determineOverallStatus(reqs[r].functionResults, sem, FALSE)
                       = "FAIL"

C1_Witness ==
    \E r \in CompareIds :
        /\ reqs[r].hasReport
        /\ "FAIL" \in Statuses(reqs[r].functionResults)
        /\ reqs[r].report.overall_status = "FAIL"

\* C2: the semantic comparator is called only once the function comparator
\* has returned five PASS results; a request whose function results hold a
\* FAIL never calls it and its report says the AI comparison did not run.
C2_SemanticOnlyAfterAllPass ==
    \A r \in CompareIds :
        /\ reqs[r].semCalled =>
               /\ reqs[r].fnCalled
               /\ HasResults(reqs[r])
               /\ Statuses(reqs[r].functionResults) = {"PASS"}
        /\ (HasResults(reqs[r])
            /\ "FAIL" \in Statuses(reqs[r].functionResults)) =>
               /\ ~reqs[r].semCalled
               /\ reqs[r].pc = "done"
               /\ reqs[r].hasReport
               /\ reqs[r].aiSkipped
               /\ ~reqs[r].report.metadata.ai_comparison_run

C2_Witness ==
    \E r \in CompareIds :
        /\ reqs[r].pc = "done"
        /\ reqs[r].hasReport
        /\ "FAIL" \in Statuses(reqs[r].functionResults)
        /\ ~reqs[r].semCalled
        /\ reqs[r].aiSkipped

\* C3: with functionPassed = true the overall status is FAIL exactly when
\* a semantic result is present and its overall_match is false or one of
\* its fields has status FAIL, and PASS otherwise.
C3_OverallStatusIffSemanticMismatch ==
    \A r \in CompareIds :
        (reqs[r].hasReport /\ reqs[r].report.metadata.function_checks_passed) =>
            (reqs[r].report.overall_status = "FAIL" <=>
                /\ reqs[r].semanticResults.kind = "value"
                /\ \/ reqs[r].semanticResults.v.overall_match = "false"
                   \/ \E i \in 1..Len(SemanticFields) :
                          reqs[r].semanticResults.v[SemanticFields[i]].status = "FAIL")

\* C4: the reference text a compare request hands to the function
\* comparator and to the semantic comparator is the non-null document that
\* was stored when the request passed its "document uploaded" check.
C4_ReferenceIsDocumentAtCheck ==
    \A r \in CompareIds :
        /\ reqs[r].fnCalled =>
               reqs[r].refFn.kind = "value" /\ reqs[r].refFn = reqs[r].docAtCheck
        /\ reqs[r].semCalled =>
               reqs[r].refSem.kind = "value" /\ reqs[r].refSem = reqs[r].docAtCheck

\* C5 (vacuous pass): compareCTAText, compareCTAUrls and checkKeywords
\* called with an empty or absent list return PASS with no issues, whatever
\* the email holds.
C5_VacuousPass ==
    \A op \in {"compareCTAText", "compareCTAUrls", "checkKeywords"} :
        (Returned(op) /\ (call.args.expected.kind # "value"
                           \/ call.args.expected.v = <<>>)) =>
            call.result.status = "PASS" /\ NoIssues(call.result)

C5_Witness ==
    /\ Returned("compareCTAUrls")
    /\ call.args.expected = Val(<<>>)
    /\ call.args.emailCTAs = <<>>
    /\ call.result.status = "PASS"

\* C6 (footer default substitution): checkFooter with an empty or omitted
\* list checks the three defaults against the lower-cased footer text, a
\* space and the full text; it is PASS iff all three occur, else FAIL with
\* one issue per missing default.
C6_FooterDefaults ==
    (Returned("checkFooter") /\ call.args.requiredTexts.v = <<>>) =>
        LET searchText == toLowerCase(call.args.footerText \o <<" ">>
                                      \o call.args.fullText)
            defaults == <<str_all_rights_reserved, str_privacy_policy, str_terms>>
            present(d) == includes(searchText, d)
        IN  /\ call.result.required = defaults
            /\ call.result.status \in {"PASS", "FAIL"}
            /\ call.result.status = "PASS" <=>
                   \A i \in 1..3 : present(defaults[i])
            /\ call.result.found = SelectSeq(defaults, present)
            /\ IssueArgs(call.result) = SelectSeq(defaults, LAMBDA d : ~present(d))

C6_Witness ==
    /\ Returned("checkFooter")
    /\ call.args.requiredTexts = Val(<<>>)
    /\ call.result.status = "FAIL"
    /\ Len(call.result.found) = 2
    /\ Len(call.result.issues) = 1
    /\ ~includes(toLowerCase(call.args.fullText), str_all_rights_reserved)
    /\ str_all_rights_reserved \in { call.result.found[i] : i \in 1..2 }

StripQuery(url) == SubSeq(url, 1, IndexOfAny(url, {"?"}) - 1)

StripQueryIfParses(url) == IF ParsesAsURL(url) THEN StripQuery(url) ELSE url

StripQueries(urls) == [i \in 1..Len(urls) |-> StripQuery(urls[i])]

StripParsedQueries(urls) == [i \in 1..Len(urls) |-> StripQueryIfParses(urls[i])]

\* The equality-oriented form: lower-cased origin plus the path without one
\* trailing slash for a string that parses, the lower-cased string without
\* one trailing slash otherwise.
EqualityForm(url) ==
    IF ParsesAsURL(url)
    THEN str_https \o toLowerCase(UrlHost(url)) \o stripTrailingSlash(UrlPathname(url))
    ELSE stripTrailingSlash(toLowerCase(url))

UrlMatches(ctas, expectedUrl) ==
    \E i \in 1..Len(ctas) :
        LET f == EqualityForm(ctas[i].cleanUrl)
            e == EqualityForm(expectedUrl)
        IN  f = e \/ includes(f, e) \/ includes(e, f)

\* C8 as stated: status and matched list of the CTA URL check do not depend
\* on the query string of any expected URL or CTA URL.
C8_QueryNeverCounts ==
    (Returned("compareCTAUrls") /\ call.args.expected.kind = "value"
     /\ call.args.expected.v # <<>>) =>
        LET urls == call.args.expected.v
            ctas == call.args.emailCTAs
            bare == [i \in 1..Len(ctas) |->
                        [ctas[i] EXCEPT !.cleanUrl = StripQuery(ctas[i].cleanUrl)]]
            again == compareCTAUrls(bare, Val(StripQueries(urls)))
        IN  /\ call.result.status = again.status
            /\ StripQueries(call.result.matched) = again.matched

\* C8 as amended: the status and the matched list do not depend on the
\* query string of any URL that parses; a URL is matched iff its
\* equality-oriented form equals, contains or is contained in that of some
\* CTA candidate's cleaned URL; the status is FAIL iff some expected URL
\* matches no candidate.
C8_QueryOfParsedUrlsNeverCounts ==
    (Returned("compareCTAUrls") /\ call.args.expected.kind = "value"
     /\ call.args.expected.v # <<>>) =>
        LET urls == call.args.expected.v
            ctas == call.args.emailCTAs
            bare == [i \in 1..Len(ctas) |->
                        [ctas[i] EXCEPT !.cleanUrl =
                                            StripQueryIfParses(ctas[i].cleanUrl)]]
            again == compareCTAUrls(bare, Val(StripParsedQueries(urls)))
        IN  /\ call.result.status = again.status
            /\ StripParsedQueries(call.result.matched) = again.matched
            /\ call.result.matched = SelectSeq(urls, LAMBDA u : UrlMatches(ctas, u))
            /\ IssueArgs(call.result) =
                   SelectSeq(urls, LAMBDA u : ~UrlMatches(ctas, u))
            /\ call.result.status = "FAIL" <=>
                   \E i \in 1..Len(urls) : ~UrlMatches(ctas, urls[i])
            /\ call.result.status \in {"PASS", "FAIL"}

C8_Witness ==
    /\ Returned("compareCTAUrls")
    /\ call.args.expected = Val(<<url_p_id2, rel_p_id2>>)
    /\ call.args.emailCTAs = <<[text |-> txt_shop_now, cleanUrl |-> url_p_id1]>>
    /\ call.result.status = "FAIL"
    /\ call.result.matched = <<url_p_id2>>

\* C9: checkUnsubscribe is PASS iff the unsubscribe signal has a link match
\* or a text match or the configured text occurs, case-insensitively, in
\* the email text; it is FAIL with the one compliance issue otherwise.
C9_Unsubscribe ==
    Returned("checkUnsubscribe") =>
        LET email == call.args.emailContent
            configured == IF call.args.requiredText.kind = "undefined"
                          THEN str_unsubscribe ELSE call.args.requiredText.v
            inText == includes(toLowerCase(email.text), toLowerCase(configured))
            signal == email.hasUnsubscribe.hasLink \/ email.hasUnsubscribe.hasText
        IN  /\ call.result.status \in {"PASS", "FAIL"}
            /\ call.result.status = "PASS" <=> (signal \/ inText)
            /\ call.result.status = "PASS" => NoIssues(call.result)
            /\ call.result.status = "FAIL" =>
                   /\ Len(call.result.issues) = 1
                   /\ call.result.issues[1].msg =
                          "Missing unsubscribe link/text - COMPLIANCE ISSUE"

C9_Witness ==
    /\ Returned("checkUnsubscribe")
    /\ call.args.emailContent.hasUnsubscribe.hasLink
    /\ ~call.args.emailContent.hasUnsubscribe.hasText
    /\ call.args.requiredText = Val(str_unsubscribe)
    /\ ~includes(toLowerCase(call.args.emailContent.text), str_unsubscribe)
    /\ call.result.status = "PASS"

\* C10: with a non-empty keyword list, found and missing partition the
\* keywords in order, a keyword is found iff it is a case-insensitive
\* substring of the email text, there is one issue per missing keyword and
\* the status is PASS iff nothing is missing.
C10_Keywords ==
    (Returned("checkKeywords") /\ call.args.expected.kind = "value"
     /\ call.args.expected.v # <<>>) =>
        LET keywords == call.args.expected.v
            inText(k) == includes(toLowerCase(call.args.emailText), toLowerCase(k))
        IN  /\ call.result.found = SelectSeq(keywords, inText)
            /\ call.result.missing = SelectSeq(keywords, LAMBDA k : ~inText(k))
            /\ Len(call.result.found) + Len(call.result.missing) = Len(keywords)
            /\ IssueArgs(call.result) = call.result.missing
            /\ call.result.status = "PASS" <=> call.result.missing = <<>>
            /\ call.result.status \in {"PASS", "FAIL"}

C10_Witness ==
    /\ Returned("checkKeywords")
    /\ call.args.emailText = text_sale
    /\ call.args.expected = Val(<<kw_zz, lbl_x>>)
    /\ call.result.status = "FAIL"
    /\ Len(call.result.issues) = 2

\* The five checks of the function comparator.
CheckOps ==
    {"compareCTAText", "compareCTAUrls", "checkUnsubscribe", "checkFooter",
     "checkKeywords"}

\* C11: a result any of the five checks returns has status PASS or FAIL,
\* and its issues list is empty or absent iff the status is PASS: no PASS
\* result carries an issue, every FAIL result carries at least one.
C11_IssuesEmptyIffPass ==
    \A op \in CheckOps :
        (Returned(op) /\ ~Threw(call.result)) =>
            /\ call.result.status \in {"PASS", "FAIL"}
            /\ NoIssues(call.result) <=> call.result.status = "PASS"

C11_Witness ==
    /\ Returned("checkFooter")
    /\ call.args.requiredTexts = Val(<<kw_zz>>)
    /\ call.result.status = "FAIL"
    /\ call.result.found = <<>>
    /\ Len(call.result.issues) = 1

\* The configuration field each check reads.
ConfigFieldOf ==
    [cta_text |-> "ctaTexts", cta_url |-> "ctaUrls",
     unsubscribe |-> "unsubscribeText", footer |-> "footerTexts",
     keywords |-> "requiredKeywords"]

\* C12: for well-formed email content and a configuration whose list
\* fields are lists, compare does not throw and returns exactly the five
\* keys, each with status PASS or FAIL; the result of a check is the same
\* under every configuration that agrees on the field the check reads,
\* whether the other checks pass or fail there.
C12_CompareRunsAllFive ==
    Returned("compare") =>
        /\ ~Threw(call.result)
        /\ DOMAIN call.result = { CheckNames[i] : i \in 1..Len(CheckNames) }
        /\ \A i \in 1..Len(CheckNames) :
               call.result[CheckNames[i]].status \in {"PASS", "FAIL"}
        /\ \A i \in 1..Len(CheckNames), other \in CompareConfigs :
               other[ConfigFieldOf[CheckNames[i]]] =
                   call.args.config[ConfigFieldOf[CheckNames[i]]] =>
                   LET again == compare(<<"b">>, call.args.emailContent, other)
                   IN  /\ ~Threw(again)
                       /\ CheckNames[i] \in DOMAIN again
                       /\ again[CheckNames[i]] = call.result[CheckNames[i]]

C12_Witness ==
    /\ Returned("compare")
    /\ ~Threw(call.result)
    /\ call.result.cta_text.status = "FAIL"
    /\ call.result.cta_url.status = "PASS"
    /\ call.result.unsubscribe.status = "PASS"
    /\ call.result.footer.status = "FAIL"
    /\ call.result.keywords.status = "PASS"

\* A parameter name is a tracking name: it starts, in any letter case,
\* with an entry of the tracking-parameter list.
IsTrackingName(name) ==
    \E k \in 1..Len(trackingParams) :
        startsWith(toLowerCase(name), toLowerCase(trackingParams[k]))

\* C13 (canonicalization idempotence): for a URL that parses,
\* stripTrackingParams applied to its own result returns that result.
C13_StripIdempotent ==
    (Returned("stripTrackingParams") /\ ParsesAsURL(call.args.url)) =>
        stripTrackingParams(call.result.v) = call.result.v

\* C14 (tracking-parameter stripping): for a URL that parses, the query
\* parameters of the result are exactly the input's parameters whose names
\* are not tracking names, values and relative order unchanged.
C14_StripsExactlyTrackingParams ==
    (Returned("stripTrackingParams") /\ ParsesAsURL(call.args.url)) =>
        /\ ParsesAsURL(call.result.v)
        /\ ParseQuery(UrlSearch(call.result.v)) =
               SelectSeq(ParseQuery(UrlSearch(call.args.url)),
                         LAMBDA x : ~IsTrackingName(x.name))

\* result is the string lower-cased with one trailing slash stripped.
IsLowerCasedWithoutTrailingSlash(result, url) ==
    LET lower == toLowerCase(url)
    IN  IF Len(lower) > 0 /\ lower[Len(lower)] = "/"
        THEN result \o <<"/">> = lower
        ELSE result = lower

\* C15 as stated: neither canonicalizer throws, and on a string that does
\* not parse as a URL each returns the string lower-cased with a trailing
\* slash stripped.
C15_FallbackLowerCasesAndStrips ==
    \A op \in {"stripTrackingParams", "normalizeUrl"} :
        Returned(op) =>
            /\ ~Threw(call.result)
            /\ ~ParsesAsURL(call.args.url) =>
                   IsLowerCasedWithoutTrailingSlash(call.result.v, call.args.url)

\* C15 as amended: neither function throws on a string; on a string that
\* does not parse as a URL, stripTrackingParams returns the string
\* unchanged and normalizeUrl returns it lower-cased with one trailing
\* slash stripped, which is therefore also the comparison form of what
\* stripTrackingParams returned.
C15_TotalWithTwoFallbacks ==
    /\ Returned("stripTrackingParams") =>
           /\ ~Threw(call.result)
           /\ ~ParsesAsURL(call.args.url) =>
                  /\ call.result.v = call.args.url
                  /\ IsLowerCasedWithoutTrailingSlash(normalizeUrl(call.result.v),
                                                      call.args.url)
    /\ Returned("normalizeUrl") =>
           /\ ~Threw(call.result)
           /\ ~ParsesAsURL(call.args.url) =>
                  IsLowerCasedWithoutTrailingSlash(call.result.v, call.args.url)

C15_Witness ==
    /\ Returned("stripTrackingParams")
    /\ call.args.url = UrlWithQuery(rel_P_slash_upper, <<par_utm_source>>)
    /\ ~ParsesAsURL(call.args.url)
    /\ call.result.v = call.args.url
    /\ normalizeUrl(rel_P_slash_upper) = rel_p

\* C16: the list extractCTAs returns holds no two entries with the same
\* text, and every entry has non-empty trimmed text and a non-empty url.
C16_CtasUniqueByText ==
    Returned("extractCTAs") =>
        /\ \A i, j \in 1..Len(call.result) :
               i # j => call.result[i].text # call.result[j].text
        /\ \A i \in 1..Len(call.result) :
               trim(call.result[i].text) # <<>> /\ call.result[i].url # <<>>

\* The issues of the i-th function check and of the i-th semantic field of
\* a generate() call, empty when the result has none.
IssuesOfCheck(functionResults, i) ==
    IF "issues" \in DOMAIN functionResults[CheckNames[i]]
    THEN functionResults[CheckNames[i]].issues
    ELSE <<>>

IssuesOfField(semanticResults, i) ==
    IF semanticResults.kind = "value"
    THEN semanticResults.v[SemanticFields[i]].issues
    ELSE <<>>

\* Total length of the lists before the i-th.
RECURSIVE LenBefore(_, _)
LenBefore(lists, i) ==
    IF i <= 1 THEN 0 ELSE LenBefore(lists, i - 1) + Len(lists[i - 1])

\* C17 (issue collection): the report's issues are the issues of the five
\* checks in check order, each tagged function / critical / its check name,
\* followed by the issues of the semantic fields in field order, each
\* tagged semantic / warning / its field name: every issue appears once, at
\* the position the concatenation gives it.
C17_IssuesAreTheConcatenation ==
    Returned("generate") =>
        LET perCheck == [i \in 1..Len(CheckNames) |->
                            IssuesOfCheck(call.args.functionResults, i)]
            perField == [i \in 1..Len(SemanticFields) |->
                            IssuesOfField(call.args.semanticResults, i)]
            nFunction == LenBefore(perCheck, Len(CheckNames) + 1)
            nSemantic == LenBefore(perField, Len(SemanticFields) + 1)
            issues == call.result.issues
        IN  /\ Len(issues) = nFunction + nSemantic
            /\ \A i \in 1..Len(CheckNames) : \A j \in 1..Len(perCheck[i]) :
                   issues[LenBefore(perCheck, i) + j] =
                       [type |-> "function", category |-> CheckNames[i],
                        message |-> perCheck[i][j], severity |-> "critical"]
            /\ \A i \in 1..Len(SemanticFields) : \A j \in 1..Len(perField[i]) :
                   issues[nFunction + LenBefore(perField, i) + j] =
                       [type |-> "semantic", category |-> SemanticFields[i],
                        message |-> perField[i][j], severity |-> "warning"]
            /\ \A m, n \in 1..Len(issues) :
                   (issues[m].type = "function" /\ issues[n].type = "semantic")
                       => m < n

C17_Witness ==
    /\ Returned("generate")
    /\ call.args.semanticResults = Val(SemanticWithIssues)
    /\ Len(IssuesOfCheck(call.args.functionResults, 1)) = 2
    /\ Len(IssuesOfCheck(call.args.functionResults, 5)) = 1
    /\ Len(call.result.issues) >= 6
    /\ call.result.issues[1].category = "cta_text"
    /\ call.result.issues[Len(call.result.issues)].category = "offer"

InSummary(sentence, report) ==
    \E i \in 1..Len(report.summary) : report.summary[i] = sentence

\* The second half of C18: a null semantic result gives ai_mock_mode false,
\* semantic_match_results null and no match / mismatch sentence.
NullSemanticIsSkipped ==
    (Returned("generate") /\ call.args.semanticResults = Null) =>
        /\ ~call.result.metadata.ai_mock_mode
        /\ call.result.semantic_match_results = Null
        /\ ~InSummary(MatchSentence, call.result)
        /\ ~InSummary(MismatchSentence, call.result)
        /\ ~InSummary(MockModeNote, call.result)

NonBlankLines == SelectSeq(call.args.lines, LAMBDA l : l # txt_blank)

\* C19 (footer fallback): when no footer selector matches an element with
\* non-empty text, extractFooter returns the last 5 non-blank lines of the
\* body text joined by newline, all of them when there are fewer than 5;
\* with exactly 7 non-blank lines these are lines 3 to 7 in order.
C19_FooterFallback ==
    (/\ Returned("extractFooter")
     /\ \A i \in 1..Len(call.args.footerMatches) :
            call.args.footerMatches[i].kind = "value" =>
                trim(call.args.footerMatches[i].v) = <<>>) =>
        LET n == Len(NonBlankLines)
            first == IF n > 5 THEN n - 4 ELSE 1
            expected == [i \in 1..(n - first + 1) |-> NonBlankLines[first + i - 1]]
        IN  /\ call.result.v = JoinWith(expected, "\n")
            /\ n = 7 =>
                   call.result.v =
                       NonBlankLines[3] \o <<"\n">> \o NonBlankLines[4] \o <<"\n">>
                       \o NonBlankLines[5] \o <<"\n">> \o NonBlankLines[6]
                       \o <<"\n">> \o NonBlankLines[7]

C19_Witness ==
    /\ Returned("extractFooter")
    /\ call.args.footerMatches = <<Undefined, Undefined, Undefined, Undefined>>
    /\ Len(call.args.lines) = 8
    /\ Len(NonBlankLines) = 7
    /\ call.args.lines[4] = txt_blank
    /\ call.result.v =
           BodyLine(3) \o <<"\n">> \o BodyLine(5) \o <<"\n">> \o BodyLine(6)
           \o <<"\n">> \o BodyLine(7) \o <<"\n">> \o BodyLine(8)

\* C20: findUnsubscribe returns hasLink = true iff some anchor's href
\* holds 'unsubscribe', 'optout' or 'opt-out' in any letter case, whatever
\* hasText is.
C20_HasLinkAnyLetterCase ==
    Returned("findUnsubscribe") =>
        (call.result.hasLink <=>
            \E i \in 1..Len(call.args.hrefs) :
                LET href == toLowerCase(call.args.hrefs[i])
                IN  \/ includes(href, str_unsubscribe)
                    \/ includes(href, str_optout)
                    \/ includes(href, str_opt_dash_out))

\* C21 (explicit footer list): with an explicit non-empty list the footer
\* check follows the per-item rule of the default set: status is PASS iff
\* every listed text occurs in the lower-cased footer text, a space and the
\* full text; status, found and issues are those of the general branch
\* also when no listed text is found; and the explicit list of the three
\* defaults gives the result of the default set.
C21_ExplicitListIsPerItem ==
    (Returned("checkFooter") /\ call.args.requiredTexts.kind = "value"
        /\ Len(call.args.requiredTexts.v) > 0) =>
        LET listed == call.args.requiredTexts.v
            searchText == toLowerCase(call.args.footerText \o <<" ">>
                                      \o call.args.fullText)
            present(t) == includes(searchText, toLowerCase(t))
            missing == SelectSeq(listed, LAMBDA t : ~present(t))
        IN  /\ call.result.status = "PASS" <=>
                   \A i \in 1..Len(listed) : present(listed[i])
            /\ call.result.status =
                   IF Len(missing) = 0 THEN "PASS" ELSE "FAIL"
            /\ call.result.found = SelectSeq(listed, present)
            /\ IssueArgs(call.result) = missing
            /\ call.result.required = listed
            /\ listed = defaultCompliance =>
                   call.result = checkFooter(call.args.footerText,
                                             call.args.fullText, Val(<<>>))

\* C21 witness: an explicit list of two texts, neither found, answered by
\* the early return.
C21_Witness ==
    /\ Returned("checkFooter")
    /\ call.args.requiredTexts.kind = "value"
    /\ Len(call.args.requiredTexts.v) = 2
    /\ call.args.requiredTexts.v[1] # call.args.requiredTexts.v[2]
    /\ call.result.status = "FAIL"
    /\ call.result.found = <<>>
    /\ IssueArgs(call.result) = call.args.requiredTexts.v

\* The request r passed the two validations of /api/compare and its
\* configuration was handed to functionComparator.compare.
Compared(r) == reqs[r].fnCalled

\* C22 (configuration defaults): the configuration /api/compare hands to
\* functionComparator.compare has the four list fields as lists and
\* unsubscribeText as a non-empty string; the comparison never throws
\* (the request is not answered 500 once compare was called); and the
\* unsubscribe check under that configuration fails on some email.
C22_ConfigDefaults ==
    \A r \in CompareIds :
        Compared(r) =>
            LET c == comparisonConfig(reqs[r].config)
            IN  /\ c.ctaTexts.kind = "value"
                /\ c.ctaUrls.kind = "value"
                /\ c.requiredKeywords.kind = "value"
                /\ c.footerTexts.kind = "value"
                /\ c.unsubscribeText.kind = "value"
                /\ Len(c.unsubscribeText.v) > 0
                /\ reqs[r].status # 500
                /\ \E e \in ServerEmails :
                       LET results == ServerCompare[reqs[r].refFn, e, reqs[r].config]
                       IN  Threw(results) \/ results.unsubscribe.status = "FAIL"

\* The semantic comparator was called for the request r (all five function
\* checks passed) and threw.
SemanticThrew(r) ==
    reqs[r].pc = "done" /\ reqs[r].semCalled /\ reqs[r].aiSkipped

\* C23 (semantic collaborator unavailable): when all five function checks
\* pass and semanticComparator.compare throws, the request is answered 200
\* with a report, the report marks the semantic layer as skipped
\* (ai_comparison_run false, the three fields SKIPPED), and its
\* overall_status is PASS.
C23_SkippedSemanticDoesNotFail ==
    \A r \in CompareIds :
        SemanticThrew(r) =>
            /\ reqs[r].status = 200
            /\ reqs[r].hasReport
            /\ functionPassedOf(reqs[r].functionResults)
            /\ reqs[r].report.metadata.function_checks_passed
            /\ ~reqs[r].report.metadata.ai_comparison_run
            /\ reqs[r].report.semantic_match_results.kind = "value"
            /\ \A i \in 1..Len(SemanticFields) :
                   reqs[r].report.semantic_match_results.v[SemanticFields[i]].status
                       = "SKIPPED"
            /\ reqs[r].report.overall_status = "PASS"

\* The /api/upload request u reached the handler with a file and has been
\* answered.
UploadAnswered(u) == uploads[u].pc = "done" /\ uploads[u].file # NoFile

\* C25 (upload cleanup and atomicity): once an /api/upload request that
\* carried a file is answered, its temporary file is no longer in the
\* uploads directory, whether parsing succeeded (200) or failed (500); and
\* the stored document is always that of an upload whose parsing succeeded.
C25_UploadCleansUp ==
    /\ \A u \in UploadIds :
           UploadAnswered(u) =>
               /\ u \notin tmpFiles
               /\ uploads[u].status = (IF uploads[u].file.ok THEN 200 ELSE 500)
    /\ documentStore # EmptyStore =>
           /\ documentStore.uploadedAt \in UploadIds
           /\ UploadAnswered(documentStore.uploadedAt)
           /\ uploads[documentStore.uploadedAt].file.ok
           /\ documentStore.text = Val(uploads[documentStore.uploadedAt].file.text)

\* No comparison request of the page is in flight.
NoComparisonInFlight == \A r \in CompareIds : compareTasks[r].pc = "idle"

\* C24 (compare button): whenever no comparison request is in flight the
\* compare button is disabled exactly when the page does not hold both a
\* document text and a fetched email; and every comparison was started
\* with a document text held and an email fetched.
C24_CompareButton ==
    /\ NoComparisonInFlight =>
           compareBtn.disabled = ~(~Falsy(documentText) /\ emailFetched)
    /\ \A r \in CompareIds :
           compareTasks[r].pc = "sent" =>
               /\ ~Falsy(compareTasks[r].documentText)
               /\ compareTasks[r].emailFetched

\* The routes of the requests of the page that are in flight.
PageRequestsInFlight ==
    (IF uploadTask.pc \in UploadPosts
     THEN {[method |-> "POST", path |-> "/api/upload"]} ELSE {})
    \cup (IF uploadTask.pc = "getText" THEN {DocumentTextRoute} ELSE {})
    \cup (IF fetchTask.pc = "awaiting"
          THEN {[method |-> "POST", path |-> "/api/fetch-email"]} ELSE {})
    \cup (IF NoComparisonInFlight
          THEN {} ELSE {[method |-> "POST", path |-> "/api/compare"]})

\* The upload flow of the page has ended after the server accepted the file.
UploadAccepted == uploadTask.pc = "finished" /\ uploadTask.accepted

\* The page holds the full text of the uploaded document, saved and shown.
HoldsDocument ==
    /\ ~Falsy(documentText)
    /\ localStorage # Null
    /\ localStorage.v.text = documentText.v
    /\ uploadStatus.textContent = "Ready"

\* The /api/compare request r of the page was evaluated against the
\* document text the page sent: the references handed to the comparators
\* are that text, and the request is not refused for lack of a document
\* when the page sent one with a URL.
EvaluatedAgainstSentText(r) ==
    /\ reqs[r].fnCalled => reqs[r].refFn = compareTasks[r].documentText
    /\ reqs[r].semCalled => reqs[r].refSem = compareTasks[r].documentText
    /\ reqs[r].status = 400 =>
           Falsy(compareTasks[r].documentText) \/ Len(compareTasks[r].url) = 0

\* C26 (upload protocol of page and server): once the upload flow has
\* ended after the server accepted the file, the page holds the document's
\* full text (documentText set, saved to localStorage, status 'Ready');
\* every request the page has in flight is for a route the server defines;
\* and every answered /api/compare request of the page was evaluated
\* against the document text sent with it.
C26_UploadProtocol ==
    /\ UploadAccepted => HoldsDocument
    /\ PageRequestsInFlight \subseteq ServerRoutes
    /\ \A r \in CompareIds :
           (compareTasks[r].pc = "sent" /\ reqs[r].pc = "done") =>
               EvaluatedAgainstSentText(r)

=============================================================================
